---- MODULE Spec2Model ----
(***************************************************************************)
(* COSMO-CLM2 case configuration and run chaining                          *)
(* (COSMO_CLM2_tools/cosmo_clm2.py).                                       *)
(*                                                                         *)
(* A datetime is the number of seconds since 1 January of MinYear, 00:00.  *)
(* Text dates keep their digits: '%Y%m%d%H' and '%Y-%m-%d-%H' are the      *)
(* integer YYYYMMDDHH, '%Y%m%d' is the integer YYYYMMDD.  A duration       *)
(* expression is a sequence of one-character strings.  An optional value   *)
(* (None in the source, or a key that a namelist lacks) is the empty       *)
(* sequence, a present value v is <<v>>.                                   *)
(***************************************************************************)
EXTENDS Integers, Sequences, FiniteSets, TLC

None == "None"
Absent == << >>
Some(v) == <<v>>

\* ------------------------------------------------------------------------
\* Inputs and bounds of the model
\* ------------------------------------------------------------------------
\* --start_date and --end_date texts (YYYY-MM-DD-HH), or none given.
StartDateArgs == {Some(2020010100), Some(2020013100), Absent}
EndDateArgs ==
    {Some(2020010400), Some(2020010300), Some(2020010212), Some(2020010100), Absent}
\* --run_length texts, or none given.
RunLengthArgs ==
    { Absent, Some(<<"1", "d">>), Some(<<"2", "d">>), Some(<<"0", "d">>),
      Some(<<"1", "m">>), Some(<<"1", "y", "1", "m">>), Some(<<"1">>) }
\* --path, or none given.
PathArgs == {Some("case"), Absent}
\* <<--ncosx, --ncosy, --ncesm, --gpu_mode, --module_purge>>: no layout given,
\* or one given for a GPU run.
MachineArgs ==
    { <<Absent, Absent, Absent, FALSE, FALSE>>,
      <<Absent, Absent, Absent, FALSE, TRUE>>,
      <<Some(2), Some(5), Some(7), TRUE, FALSE>> }
\* Namelist templates copied into the case directory before construction.
YdateIniTmpls == {2020010100}
HstartTmpls == {0, 1, 24}
StartYmdTmpls == {20200101, 20200102}
\* (nstop, dt, stop_n) of the templates
StopTmpls == { <<47, 3600, 86400>>, <<674, 128, 86400>>, <<11, 3600, 43200>> }

\* Number of calendar years the model represents, from the earliest input.
YearSpan == 3
\* The call counter of set_next_run saturates at this value.
MaxAdvance == 4
\* Longest duration expression handed to add_time_from_str on its own.
MaxLen == 4

InputYears == {d[1] \div 1000000 : d \in (StartDateArgs \cup EndDateArgs) \ {Absent}}
                 \cup {d \div 1000000 : d \in YdateIniTmpls}
MinYear == CHOOSE y \in InputYears : \A z \in InputYears : y <= z
MaxYear == MinYear + YearSpan

\* ------------------------------------------------------------------------
\* datetime: proleptic Gregorian calendar, second resolution
\* ------------------------------------------------------------------------
SecPerHour == 3600
SecPerDay == 24 * SecPerHour

IsLeap(y) == (y % 4 = 0 /\ y % 100 # 0) \/ y % 400 = 0

DaysInYear(y) == IF IsLeap(y) THEN 366 ELSE 365

DaysInMonth(y, m) ==
    IF m = 2 THEN (IF IsLeap(y) THEN 29 ELSE 28)
    ELSE IF m \in {4, 6, 9, 11} THEN 30 ELSE 31

RECURSIVE DaysBeforeMonth(_, _)
DaysBeforeMonth(y, m) ==
    IF m <= 1 THEN 0 ELSE DaysBeforeMonth(y, m - 1) + DaysInMonth(y, m - 1)

\* Days from 1 January of MinYear to 1 January of y.
RECURSIVE DaysBeforeYear(_)
DaysBeforeYear(y) ==
    IF y <= MinYear THEN 0 ELSE DaysBeforeYear(y - 1) + DaysInYear(y - 1)

\* datetime(y, m, d, h): the constructor rejects a month or a day that the
\* calendar does not have.
ValidYMDH(y, m, d, h) ==
    /\ y \in MinYear..MaxYear
    /\ m \in 1..12
    /\ d \in 1..DaysInMonth(y, m)
    /\ h \in 0..23

MkDate(y, m, d, h) ==
    (DaysBeforeYear(y) + DaysBeforeMonth(y, m) + (d - 1)) * SecPerDay
        + h * SecPerHour

DayNum(t) == t \div SecPerDay

YearOf(t) ==
    CHOOSE y \in MinYear..MaxYear :
        DaysBeforeYear(y) <= DayNum(t) /\ DayNum(t) < DaysBeforeYear(y + 1)

MonthOf(t) ==
    LET y == YearOf(t)
        n == DayNum(t) - DaysBeforeYear(y)
    IN CHOOSE m \in 1..12 :
        DaysBeforeMonth(y, m) <= n /\ n < DaysBeforeMonth(y, m) + DaysInMonth(y, m)

DayOf(t) ==
    DayNum(t) - DaysBeforeYear(YearOf(t)) - DaysBeforeMonth(YearOf(t), MonthOf(t)) + 1

HourOf(t) == (t % SecPerDay) \div SecPerHour

InCalendar(t) ==
    DaysBeforeYear(MinYear) <= DayNum(t) /\ DayNum(t) < DaysBeforeYear(MaxYear + 1)

\* strftime(date_fmt_cosmo) and strftime(date_fmt_in): minutes and seconds
\* are not printed.
FmtCosmo(t) ==
    YearOf(t) * 1000000 + MonthOf(t) * 10000 + DayOf(t) * 100 + HourOf(t)

\* strftime(date_fmt_cesm): the hour is not printed either.
FmtCesm(t) == YearOf(t) * 10000 + MonthOf(t) * 100 + DayOf(t)

\* strptime: a record [ok, val]; ok is FALSE when the text is not a date.
ParseCosmo(n) ==
    LET y == n \div 1000000
        m == (n \div 10000) % 100
        d == (n \div 100) % 100
        h == n % 100
    IN IF ValidYMDH(y, m, d, h)
       THEN [ok |-> TRUE, val |-> MkDate(y, m, d, h)]
       ELSE [ok |-> FALSE, val |-> 0]

ParseCesm(n) ==
    LET y == n \div 10000
        m == (n \div 100) % 100
        d == n % 100
    IN IF ValidYMDH(y, m, d, 0)
       THEN [ok |-> TRUE, val |-> MkDate(y, m, d, 0)]
       ELSE [ok |-> FALSE, val |-> 0]

\* ------------------------------------------------------------------------
\* int(text) on a slice of a duration expression
\* ------------------------------------------------------------------------
Digits == {"0", "1", "2", "3", "4", "5", "6", "7", "8", "9"}

DigitVal(c) ==
    CASE c = "0" -> 0 [] c = "1" -> 1 [] c = "2" -> 2 [] c = "3" -> 3
      [] c = "4" -> 4 [] c = "5" -> 5 [] c = "6" -> 6 [] c = "7" -> 7
      [] c = "8" -> 8 [] c = "9" -> 9

RECURSIVE DecVal(_)
DecVal(s) ==
    IF Len(s) = 0 THEN 0
    ELSE DecVal(SubSeq(s, 1, Len(s) - 1)) * 10 + DigitVal(s[Len(s)])

AllDigits(s) == Len(s) > 0 /\ \A i \in 1..Len(s) : s[i] \in Digits

\* int(s): optional sign, then at least one digit; anything else raises.
PyInt(s) ==
    IF Len(s) > 0 /\ s[1] \in {"+", "-"}
    THEN IF AllDigits(Tail(s))
         THEN [ok |-> TRUE, val |-> IF s[1] = "-" THEN 0 - DecVal(Tail(s)) ELSE DecVal(Tail(s))]
         ELSE [ok |-> FALSE, val |-> 0]
    ELSE IF AllDigits(s)
         THEN [ok |-> TRUE, val |-> DecVal(s)]
         ELSE [ok |-> FALSE, val |-> 0]

\* s[a:b] of Python, with 0-based a and b
Slice(s, a, b) == SubSeq(s, a + 1, b)

\* ------------------------------------------------------------------------
\* add_time_from_str
\* ------------------------------------------------------------------------
\* First loop: st = [ky, km, ny, nm, err]; k is the 0-based index.
RECURSIVE ScanYM(_, _, _)
ScanYM(s, k, st) ==
    IF k >= Len(s) \/ st.err # None THEN st
    ELSE
      LET c == s[k + 1]
          py == PyInt(Slice(s, 0, k))
          st1 == IF c = "y"
                 THEN IF py.ok THEN [st EXCEPT !.ky = k, !.ny = py.val]
                      ELSE [st EXCEPT !.err = "InvalidLiteral"]
                 ELSE st
          pm == PyInt(Slice(s, st1.ky, k))
          st2 == IF c = "m" /\ st1.err = None
                 THEN IF pm.ok THEN [st1 EXCEPT !.km = k, !.nm = pm.val]
                      ELSE [st1 EXCEPT !.err = "InvalidLiteral"]
                 ELSE st1
      IN ScanYM(s, k + 1, st2)

\* Second loop: st = [kd, nd, err]
RECURSIVE ScanD(_, _, _)
ScanD(s, k, st) ==
    IF k >= Len(s) \/ st.err # None THEN st
    ELSE
      LET c == s[k + 1]
          pd == PyInt(Slice(s, 0, k))
          st1 == IF c = "d"
                 THEN IF pd.ok THEN [st EXCEPT !.kd = k, !.nd = pd.val]
                      ELSE [st EXCEPT !.err = "InvalidLiteral"]
                 ELSE st
      IN ScanD(s, k + 1, st1)

\* The result is [err, val]: err is None and val the new date, or err names
\* the exception.
add_time_from_str(date1, dt_str) ==
    LET ym == ScanYM(dt_str, 0, [ky |-> 0, km |-> 0, ny |-> 0, nm |-> 0, err |-> None])
    IN IF ym.err # None THEN [err |-> ym.err, val |-> 0]
       ELSE IF ym.km = 0 /\ ym.ky = 0
       THEN LET dd == ScanD(dt_str, 0, [kd |-> 0, nd |-> 0, err |-> None])
            IN IF dd.err # None THEN [err |-> dd.err, val |-> 0]
               ELSE IF dd.kd = 0 THEN [err |-> "MalformedDuration", val |-> 0]
               ELSE [err |-> None, val |-> date1 + dd.nd * SecPerDay]
       ELSE LET y1 == YearOf(date1)
                m1 == MonthOf(date1)
                d2 == DayOf(date1)
                h2 == HourOf(date1)
                y2 == y1 + ym.ny + ((ym.nm + m1 - 1) \div 12)
                m2 == ((ym.nm + m1 - 1) % 12) + 1
            IN IF ValidYMDH(y2, m2, d2, h2)
               THEN [err |-> None, val |-> MkDate(y2, m2, d2, h2)]
               ELSE [err |-> "DayOutOfRange", val |-> 0]

\* ------------------------------------------------------------------------
\* State
\* ------------------------------------------------------------------------
VARIABLES
    pc,      \* position of the invocation: "create", "created", "new",
             \* "constructed", "ran", "decided", "advanced", "failed"
    args,    \* keyword arguments of the next case(...) construction
    self,    \* attributes of the case object
    nml,     \* self.nml: the nmldict cache, file name -> content or Absent
    disk,    \* namelist files in the case directory
    fs,      \* other files of the case directory: namcouple, proc_config,
             \* controller, config.xml
    err,     \* the exception that ended the invocation, or None
    result,  \* return value of the last set_next_run(): "True", "False"
             \* or None
    nadv     \* number of set_next_run() calls since the case was created

vars == <<pc, args, self, nml, disk, fs, err, result, nadv>>

Files == {"INPUT_ORG", "INPUT_IO", "drv_in", "lnd_modelio.nml"}

\* Number of tasks per node (class attribute)
n_tasks_per_node == 12

\* The attributes __init__ has not assigned yet.
NewSelf ==
    [ run_length |-> Absent, COSMO_exe |-> "", CESM_exe |-> "", wall_time |-> "",
      account |-> "", gpu_mode |-> FALSE, module_purge |-> FALSE,
      dummy_day |-> FALSE, path |-> Absent, name |-> Absent,
      start_date |-> Absent, end_date |-> Absent,
      run_start_date |-> Absent, run_end_date |-> Absent, runtime |-> Absent,
      ncosx |-> Absent, ncosy |-> Absent, ncesm |-> Absent, n_nodes |-> Absent ]

NoCache == [f \in Files |-> Absent]

\* A method works on a context m = [self, nml, disk, fs, err] and returns the
\* context it leaves; once m.err is set the exception propagates and no later
\* statement runs.
Raise(m, e) == [m EXCEPT !.err = e]

\* Let([x \in {v} |-> e]) is e with x naming the value of v
Let(f) == CHOOSE r \in UNION {{g[x] : x \in DOMAIN g} : g \in {f}} : TRUE

\* An exception is pending in the context m: the statements that follow in
\* the method, and in its callers, are skipped.
Failed(m) == m.err # None

Min(a, b) == IF a <= b THEN a ELSE b

\* ------------------------------------------------------------------------
\* nmldict
\* ------------------------------------------------------------------------
\* __getitem__ reading the file on every reference
nmldict_getitem_reread(m, key) ==
    IF m.err # None THEN m
    ELSE IF m.disk[key] = Absent THEN Raise(m, "ConfigNotFound")
    ELSE [m EXCEPT !.nml[key] = Some(m.disk[key][1])]

\* __getitem__ entering an empty namelist for a file it cannot read
nmldict_getitem_placeholder(m, key) ==
    IF m.err # None THEN m
    ELSE IF m.nml[key] # Absent THEN m
    ELSE IF m.disk[key] = Absent
    THEN [m EXCEPT !.nml[key] = Some(<< >>), !.err = "ConfigNotFound"]
    ELSE [m EXCEPT !.nml[key] = Some(m.disk[key][1])]

\* __getitem__: read the file on the first reference only.
nmldict_getitem(m, key) ==
    IF m.err # None THEN m
    ELSE IF m.nml[key] # Absent THEN m
    ELSE IF m.disk[key] = Absent THEN Raise(m, "ConfigNotFound")
    ELSE [m EXCEPT !.nml[key] = Some(m.disk[key][1])]

\* write writing every cached file along with the named one
nmldict_write_flushing(m, name) ==
    Let([m1 \in {nmldict_getitem(m, name)} |-> IF Failed(m1) THEN m1 ELSE
        [m1 EXCEPT !.disk = [f \in Files |->
                                IF m1.nml[f] # Absent THEN m1.nml[f] ELSE m1.disk[f]]]])

\* write: self[name].write(path, force=True)
nmldict_write(m, name) ==
    Let([m1 \in {nmldict_getitem(m, name)} |-> IF Failed(m1) THEN m1 ELSE
        [m1 EXCEPT !.disk[name] = m1.nml[name]]])

\* write_all: every cached file
nmldict_write_all(m) ==
    IF m.err # None THEN m
    ELSE [m EXCEPT !.disk = [f \in Files |->
                                IF m.nml[f] # Absent THEN m.nml[f] ELSE m.disk[f]]]

\* self.nml[file][param] = value, written through to the file
SetPar_write_through(m, file, param, value) ==
    Let([m1 \in {nmldict_getitem(m, file)} |-> IF Failed(m1) THEN m1 ELSE
    Let([new \in {Some([m1.nml[file][1] EXCEPT ![param] = value])} |->
        [m1 EXCEPT !.nml[file] = new, !.disk[file] = new]])])

\* self.nml[file][param] = value
SetPar(m, file, param, value) ==
    Let([m1 \in {nmldict_getitem(m, file)} |-> IF Failed(m1) THEN m1 ELSE
        [m1 EXCEPT !.nml[file] = Some([m1.nml[file][1] EXCEPT ![param] = value])]])

\* self.nml[file][param], once the file is cached
Par(m, file, param) == m.nml[file][1][param]

\* ------------------------------------------------------------------------
\* case._compute_run_dates
\* ------------------------------------------------------------------------
\* compute_run_start with the comparison of the two dates left out
compute_run_start_unchecked(m) ==
    Let([m1 \in {nmldict_getitem(m, "INPUT_ORG")} |-> IF Failed(m1) THEN m1 ELSE
    Let([m2 \in {nmldict_getitem(m1, "drv_in")} |-> IF Failed(m2) THEN m2 ELSE
    Let([ini \in {ParseCosmo(Par(m2, "INPUT_ORG", "ydate_ini")[1])} |->
        IF ~ini.ok THEN Raise(m2, "BadDate")
        ELSE [m2 EXCEPT !.self.run_start_date =
                Some(ini.val + Par(m2, "INPUT_ORG", "hstart") * SecPerHour)]])])])

\* compute_run_start comparing the two dates by their day only
compute_run_start_by_day(m) ==
    Let([m1 \in {nmldict_getitem(m, "INPUT_ORG")} |-> IF Failed(m1) THEN m1 ELSE
    Let([m2 \in {nmldict_getitem(m1, "drv_in")} |-> IF Failed(m2) THEN m2 ELSE
    Let([ini \in {ParseCosmo(Par(m2, "INPUT_ORG", "ydate_ini")[1])} |->
    Let([ymd \in {ParseCesm(Par(m2, "drv_in", "start_ymd"))} |->
    Let([date_cosmo \in {ini.val + Par(m2, "INPUT_ORG", "hstart") * SecPerHour} |->
        IF ~ini.ok \/ ~ymd.ok THEN Raise(m2, "BadDate")
        ELSE IF DayNum(date_cosmo) # DayNum(ymd.val) THEN Raise(m2, "DateMismatch")
        ELSE [m2 EXCEPT !.self.run_start_date = Some(date_cosmo)]])])])])])

\* "Read in _run_start_date"
compute_run_start(m) ==
    Let([m1 \in {nmldict_getitem(m, "INPUT_ORG")} |-> IF Failed(m1) THEN m1 ELSE
    Let([m2 \in {nmldict_getitem(m1, "drv_in")} |-> IF Failed(m2) THEN m2 ELSE
    Let([ini \in {ParseCosmo(Par(m2, "INPUT_ORG", "ydate_ini")[1])} |->
    Let([ymd \in {ParseCesm(Par(m2, "drv_in", "start_ymd"))} |->
    Let([date_cosmo \in {ini.val + Par(m2, "INPUT_ORG", "hstart") * SecPerHour} |->
    Let([date_cesm \in {ymd.val} |->
        IF ~ini.ok \/ ~ymd.ok THEN Raise(m2, "BadDate")
        ELSE IF date_cosmo # date_cesm THEN Raise(m2, "DateMismatch")
        ELSE [m2 EXCEPT !.self.run_start_date = Some(date_cosmo)]])])])])])])

\* compute_run_end_bounded without the cut at the case end date
compute_run_end_uncut(m) ==
    Let([rs \in {m.self.run_start_date[1]} |->
    Let([e \in {m.self.end_date[1]} |->
        IF rs > e THEN Raise(m, "InvalidRange")
        ELSE IF rs = e
        THEN [m EXCEPT !.self.runtime = Some(SecPerDay),
                       !.self.run_end_date = Some(e + SecPerDay)]
        ELSE IF m.self.run_length = Absent
        THEN [m EXCEPT !.self.run_end_date = Some(e),
                       !.self.runtime = Some(e - rs)]
        ELSE Let([a \in {add_time_from_str(rs, m.self.run_length[1])} |->
                IF a.err # None THEN Raise(m, a.err)
                ELSE [m EXCEPT !.self.run_end_date = Some(a.val),
                               !.self.runtime = Some(a.val - rs)]])])])

\* compute_run_end_bounded with the start date allowed to pass the end date
\* and the duration taken from the uncut chunk
compute_run_end_loose(m) ==
    Let([rs \in {m.self.run_start_date[1]} |->
    Let([e \in {m.self.end_date[1]} |->
        IF rs >= e
        THEN [m EXCEPT !.self.runtime = Some(SecPerDay),
                       !.self.run_end_date = Some(e + SecPerDay)]
        ELSE IF m.self.run_length = Absent
        THEN [m EXCEPT !.self.run_end_date = Some(e),
                       !.self.runtime = Some(e - rs)]
        ELSE Let([a \in {add_time_from_str(rs, m.self.run_length[1])} |->
                IF a.err # None THEN Raise(m, a.err)
                ELSE [m EXCEPT !.self.run_end_date = Some(Min(a.val, e)),
                               !.self.runtime = Some(a.val - rs)]])])])

\* "Compute _runtime and _run_end_date (possibly _end_date)", the case end
\* date being set
compute_run_end_bounded(m) ==
    Let([rs \in {m.self.run_start_date[1]} |->
    Let([e \in {m.self.end_date[1]} |->
        IF rs > e THEN Raise(m, "InvalidRange")
        ELSE IF rs = e
        THEN [m EXCEPT !.self.runtime = Some(SecPerDay),
                       !.self.run_end_date = Some(e + SecPerDay)]
        ELSE IF m.self.run_length = Absent
        THEN [m EXCEPT !.self.run_end_date = Some(e),
                       !.self.runtime = Some(e - rs)]
        ELSE Let([a \in {add_time_from_str(rs, m.self.run_length[1])} |->
                IF a.err # None THEN Raise(m, a.err)
                ELSE [m EXCEPT !.self.run_end_date = Some(Min(a.val, e)),
                               !.self.runtime = Some(Min(a.val, e) - rs)]])])])

\* compute_run_end_open adopting the duration of INPUT_ORG without comparing
compute_run_end_open_unchecked(m) ==
    Let([rs \in {m.self.run_start_date[1]} |->
        IF m.self.run_length = Absent
        THEN Let([runtime_cosmo \in {(Par(m, "INPUT_ORG", "nstop") + 1) * Par(m, "INPUT_ORG", "dt")
                     - Par(m, "INPUT_ORG", "hstart") * SecPerHour} |->
                [m EXCEPT !.self.runtime = Some(runtime_cosmo),
                          !.self.run_end_date = Some(rs + runtime_cosmo),
                          !.self.end_date = Some(rs + runtime_cosmo)]])
        ELSE Let([a \in {add_time_from_str(rs, m.self.run_length[1])} |->
                IF a.err # None THEN Raise(m, a.err)
                ELSE [m EXCEPT !.self.run_end_date = Some(a.val),
                               !.self.end_date = Some(a.val)]])])

\* the same, no case end date being set
compute_run_end_open(m) ==
    Let([rs \in {m.self.run_start_date[1]} |->
        IF m.self.run_length = Absent
        THEN Let([runtime_cosmo \in {(Par(m, "INPUT_ORG", "nstop") + 1) * Par(m, "INPUT_ORG", "dt")
                     - Par(m, "INPUT_ORG", "hstart") * SecPerHour} |->
             Let([runtime_cesm \in {Par(m, "drv_in", "stop_n")} |->
                IF runtime_cosmo # runtime_cesm THEN Raise(m, "DurationMismatch")
                ELSE [m EXCEPT !.self.runtime = Some(runtime_cosmo),
                               !.self.run_end_date = Some(rs + runtime_cosmo),
                               !.self.end_date = Some(rs + runtime_cosmo)]])])
        ELSE Let([a \in {add_time_from_str(rs, m.self.run_length[1])} |->
                IF a.err # None THEN Raise(m, a.err)
                ELSE [m EXCEPT !.self.run_end_date = Some(a.val),
                               !.self.end_date = Some(a.val)]])])

compute_run_dates(m) ==
    Let([m1 \in {compute_run_start(m)} |-> IF Failed(m1) THEN m1 ELSE
        IF m1.self.end_date # Absent THEN compute_run_end_bounded(m1)
        ELSE compute_run_end_open(m1)])

\* ------------------------------------------------------------------------
\* case._get_gribouts, case._apply_run_dates, case._check_gribout
\* ------------------------------------------------------------------------
\* The gribout blocks of INPUT_IO, [] when the key is absent (INPUT_IO cached)
get_gribouts(m) ==
    IF Par(m, "INPUT_IO", "gribout") = Absent THEN << >>
    ELSE Par(m, "INPUT_IO", "gribout")[1]

\* for gribout in self._get_gribouts(): gribout['hcomb'][0:2] = hstart, hstop
SetHcomb(m, hstart, hstop) ==
    Let([gribs \in {get_gribouts(m)} |->
        IF Len(gribs) = 0 THEN m
        ELSE SetPar(m, "INPUT_IO", "gribout",
                    Some([i \in 1..Len(gribs) |->
                            [gribs[i] EXCEPT !.hcomb = <<hstart, hstop, gribs[i].hcomb[3]>>]]))])

\* apply_run_dates counting the steps of the chunk on top of the nstop found
apply_run_dates_adding(m) ==
    IF m.err # None THEN m
    ELSE IF m.self.runtime = Absent THEN Raise(m, "AttributeError")
    ELSE
    Let([hstart \in {(m.self.run_start_date[1] - m.self.start_date[1]) \div SecPerHour} |->
    Let([runtime_seconds \in {m.self.runtime[1]} |->
    Let([hstop \in {hstart + (runtime_seconds \div SecPerHour)} |->
    Let([m1 \in {nmldict_getitem(m, "INPUT_ORG")} |-> IF Failed(m1) THEN m1 ELSE
    Let([m2 \in {nmldict_getitem(m1, "INPUT_IO")} |-> IF Failed(m2) THEN m2 ELSE
    Let([m3 \in {nmldict_getitem(m2, "drv_in")} |-> IF Failed(m3) THEN m3 ELSE
    Let([m4 \in {SetPar(m3, "INPUT_ORG", "nstop",
                Par(m3, "INPUT_ORG", "nstop")
                  + ((runtime_seconds \div SecPerHour) * SecPerHour) \div Par(m3, "INPUT_ORG", "dt"))} |-> IF Failed(m4) THEN m4 ELSE
    Let([m5 \in {SetHcomb(m4, hstart, hstop)} |-> IF Failed(m5) THEN m5 ELSE
    Let([m6 \in {SetPar(m5, "INPUT_IO", "nhour_restart", <<hstop, hstop, 24>>)} |-> IF Failed(m6) THEN m6 ELSE
    Let([m7 \in {SetPar(m6, "drv_in", "stop_n", runtime_seconds)} |-> IF Failed(m7) THEN m7 ELSE
    Let([m8 \in {SetPar(m7, "drv_in", "restart_n", runtime_seconds)} |-> IF Failed(m8) THEN m8 ELSE
        [m8 EXCEPT !.fs.namcouple = Some(runtime_seconds)]])])])])])])])])])])])

\* apply_run_dates counting the steps from the chunk start instead of the
\* case start
apply_run_dates_chunk_steps(m) ==
    IF m.err # None THEN m
    ELSE IF m.self.runtime = Absent THEN Raise(m, "AttributeError")
    ELSE
    Let([hstart \in {(m.self.run_start_date[1] - m.self.start_date[1]) \div SecPerHour} |->
    Let([runtime_seconds \in {m.self.runtime[1]} |->
    Let([hstop \in {hstart + (runtime_seconds \div SecPerHour)} |->
    Let([m1 \in {nmldict_getitem(m, "INPUT_ORG")} |-> IF Failed(m1) THEN m1 ELSE
    Let([m2 \in {nmldict_getitem(m1, "INPUT_IO")} |-> IF Failed(m2) THEN m2 ELSE
    Let([m3 \in {nmldict_getitem(m2, "drv_in")} |-> IF Failed(m3) THEN m3 ELSE
    Let([m4 \in {SetPar(m3, "INPUT_ORG", "nstop",
                (((hstop - hstart) * SecPerHour) \div Par(m3, "INPUT_ORG", "dt")) - 1)} |-> IF Failed(m4) THEN m4 ELSE
    Let([m5 \in {SetHcomb(m4, hstart, hstop)} |-> IF Failed(m5) THEN m5 ELSE
    Let([m6 \in {SetPar(m5, "INPUT_IO", "nhour_restart", <<hstop, hstop, 24>>)} |-> IF Failed(m6) THEN m6 ELSE
    Let([m7 \in {SetPar(m6, "drv_in", "stop_n", runtime_seconds)} |-> IF Failed(m7) THEN m7 ELSE
    Let([m8 \in {SetPar(m7, "drv_in", "restart_n", runtime_seconds)} |-> IF Failed(m8) THEN m8 ELSE
        [m8 EXCEPT !.fs.namcouple = Some(runtime_seconds)]])])])])])])])])])])])

apply_run_dates(m) ==
    IF m.err # None THEN m
    ELSE IF m.self.runtime = Absent THEN Raise(m, "AttributeError")
    ELSE
    Let([hstart \in {(m.self.run_start_date[1] - m.self.start_date[1]) \div SecPerHour} |->
    Let([runtime_seconds \in {m.self.runtime[1]} |->
    Let([hstop \in {hstart + (runtime_seconds \div SecPerHour)} |->
    Let([m1 \in {nmldict_getitem(m, "INPUT_ORG")} |-> IF Failed(m1) THEN m1 ELSE
    Let([m2 \in {nmldict_getitem(m1, "INPUT_IO")} |-> IF Failed(m2) THEN m2 ELSE
    Let([m3 \in {nmldict_getitem(m2, "drv_in")} |-> IF Failed(m3) THEN m3 ELSE
    Let([m4 \in {SetPar(m3, "INPUT_ORG", "nstop",
                ((hstop * SecPerHour) \div Par(m3, "INPUT_ORG", "dt")) - 1)} |-> IF Failed(m4) THEN m4 ELSE
    Let([m5 \in {SetHcomb(m4, hstart, hstop)} |-> IF Failed(m5) THEN m5 ELSE
    Let([m6 \in {SetPar(m5, "INPUT_IO", "nhour_restart", <<hstop, hstop, 24>>)} |-> IF Failed(m6) THEN m6 ELSE
    Let([m7 \in {SetPar(m6, "drv_in", "stop_n", runtime_seconds)} |-> IF Failed(m7) THEN m7 ELSE
    Let([m8 \in {SetPar(m7, "drv_in", "restart_n", runtime_seconds)} |-> IF Failed(m8) THEN m8 ELSE
        [m8 EXCEPT !.fs.namcouple = Some(runtime_seconds)]])])])])])])])])])])])

\* check_gribout keeping only the blocks whose threshold the chunk exceeds
check_gribout_strict(m) ==
    Let([m0 \in {m} |-> IF Failed(m0) THEN m0 ELSE
    Let([runtime_hours \in {m0.self.runtime[1] \div SecPerHour} |->
    Let([m1 \in {nmldict_getitem(m0, "INPUT_IO")} |-> IF Failed(m1) THEN m1 ELSE
    Let([gribouts_in \in {get_gribouts(m1)} |->
    Let([gribouts_out \in {SelectSeq(gribouts_in, LAMBDA g : runtime_hours > g.hcomb[3])} |->
        IF Len(gribouts_out) > 0
        THEN Let([m2 \in {SetPar(m1, "INPUT_IO", "gribout", Some(gribouts_out))} |-> IF Failed(m2) THEN m2 ELSE
                  SetPar(m2, "INPUT_IO", "ngribout", Len(gribouts_out))])
        ELSE IF Len(gribouts_in) > 0
        THEN SetPar(m1, "INPUT_IO", "gribout", Absent)
        ELSE m1])])])])])

\* The blocks left by a loop that removes the blocks that are too long from
\* the list it is iterating over: the block after a removed one is skipped.
RECURSIVE remove_while_iterating(_, _, _)
remove_while_iterating(blocks, i, hours) ==
    IF i > Len(blocks) THEN blocks
    ELSE IF hours >= blocks[i].hcomb[3] THEN remove_while_iterating(blocks, i + 1, hours)
    ELSE remove_while_iterating(SubSeq(blocks, 1, i - 1) \o SubSeq(blocks, i + 1, Len(blocks)),
                                i + 1, hours)

\* check_gribout filtering the list in place
check_gribout_in_place(m) ==
    Let([m0 \in {m} |-> IF Failed(m0) THEN m0 ELSE
    Let([runtime_hours \in {m0.self.runtime[1] \div SecPerHour} |->
    Let([m1 \in {nmldict_getitem(m0, "INPUT_IO")} |-> IF Failed(m1) THEN m1 ELSE
    Let([gribouts_in \in {get_gribouts(m1)} |->
    Let([gribouts_out \in {remove_while_iterating(gribouts_in, 1, runtime_hours)} |->
        IF Len(gribouts_out) > 0
        THEN Let([m2 \in {SetPar(m1, "INPUT_IO", "gribout", Some(gribouts_out))} |-> IF Failed(m2) THEN m2 ELSE
                  SetPar(m2, "INPUT_IO", "ngribout", Len(gribouts_out))])
        ELSE IF Len(gribouts_in) > 0
        THEN SetPar(m1, "INPUT_IO", "gribout", Absent)
        ELSE m1])])])])])

check_gribout(m) ==
    Let([m0 \in {m} |-> IF Failed(m0) THEN m0 ELSE
    Let([runtime_hours \in {m0.self.runtime[1] \div SecPerHour} |->
    Let([m1 \in {nmldict_getitem(m0, "INPUT_IO")} |-> IF Failed(m1) THEN m1 ELSE
    Let([gribouts_in \in {get_gribouts(m1)} |->
    Let([gribouts_out \in {SelectSeq(gribouts_in, LAMBDA g : runtime_hours >= g.hcomb[3])} |->
        IF Len(gribouts_out) > 0
        THEN Let([m2 \in {SetPar(m1, "INPUT_IO", "gribout", Some(gribouts_out))} |-> IF Failed(m2) THEN m2 ELSE
                  SetPar(m2, "INPUT_IO", "ngribout", Len(gribouts_out))])
        ELSE IF Len(gribouts_in) > 0
        THEN SetPar(m1, "INPUT_IO", "gribout", Absent)
        ELSE m1])])])])])

\* ------------------------------------------------------------------------
\* case.write_open_nml, _build_proc_config, _build_controller,
\* _update_controller, _create_missing_dirs, to_xml
\* ------------------------------------------------------------------------
write_open_nml(m) == nmldict_write_all(m)

\* build_proc_config counting a node for a partly used one
build_proc_config_round_up(m) ==
    Let([m0 \in {nmldict_getitem(m, "INPUT_ORG")} |-> IF Failed(m0) THEN m0 ELSE
    Let([m1 \in {nmldict_getitem(m0, "drv_in")} |-> IF Failed(m1) THEN m1 ELSE
    Let([n_cos \in {Par(m1, "INPUT_ORG", "nprocx") * Par(m1, "INPUT_ORG", "nprocy")} |->
    Let([n_cesm \in {Par(m1, "drv_in", "lnd_ntasks")} |->
    Let([n_tot \in {n_cos + n_cesm} |->
        [m1 EXCEPT !.self.n_nodes = Some((n_tot + n_tasks_per_node - 1) \div n_tasks_per_node),
                   !.fs.proc_config =
                       Some(<< [first |-> 0, last |-> n_cos - 1, exe |-> m1.self.COSMO_exe],
                               [first |-> n_cos, last |-> n_tot - 1, exe |-> m1.self.CESM_exe] >>)]])])])])])

build_proc_config(m) ==
    Let([m0 \in {nmldict_getitem(m, "INPUT_ORG")} |-> IF Failed(m0) THEN m0 ELSE
    Let([m1 \in {nmldict_getitem(m0, "drv_in")} |-> IF Failed(m1) THEN m1 ELSE
    Let([n_cos \in {Par(m1, "INPUT_ORG", "nprocx") * Par(m1, "INPUT_ORG", "nprocy")} |->
    Let([n_cesm \in {Par(m1, "drv_in", "lnd_ntasks")} |->
    Let([n_tot \in {n_cos + n_cesm} |->
        [m1 EXCEPT !.self.n_nodes = Some(n_tot \div n_tasks_per_node),
                   !.fs.proc_config =
                       Some(<< [first |-> 0, last |-> n_cos - 1, exe |-> m1.self.COSMO_exe],
                               [first |-> n_cos, last |-> n_tot - 1, exe |-> m1.self.CESM_exe] >>)]])])])])])

\* '{name}_{run_start:%Y%m%d}-{run_end:%Y%m%d}.out'
LogFile(slf) ==
    [ name |-> slf.name[1],
      from |-> FmtCesm(slf.run_start_date[1]),
      to |-> FmtCesm(slf.run_end_date[1]) ]

build_controller(m) ==
    IF m.err # None THEN m
    ELSE [m EXCEPT !.fs.controller =
            Some([ job_name |-> m.self.name[1], nodes |-> m.self.n_nodes[1],
                   output |-> LogFile(m.self), error |-> LogFile(m.self),
                   account |-> m.self.account, time |-> m.self.wall_time,
                   module_purge |-> m.self.module_purge,
                   gpu_mode |-> m.self.gpu_mode ])]

\* update_controller substituting the '--output=' line alone
update_controller_output_only(m) ==
    IF m.err # None THEN m
    ELSE IF m.fs.controller = Absent THEN Raise(m, "IOError")
    ELSE [m EXCEPT !.fs.controller =
            Some([m.fs.controller[1] EXCEPT !.output = LogFile(m.self)])]

\* Only the two '#SBATCH --output=' / '--error=' lines are substituted.
update_controller(m) ==
    IF m.err # None THEN m
    ELSE IF m.fs.controller = Absent THEN Raise(m, "IOError")
    ELSE [m EXCEPT !.fs.controller =
            Some([m.fs.controller[1] EXCEPT !.output = LogFile(m.self),
                                            !.error = LogFile(m.self)])]

\* The directories named by the namelists are created; the modelio namelists
\* enter the cache on the way.
create_missing_dirs(m) ==
    Let([m1 \in {nmldict_getitem(m, "INPUT_IO")} |-> IF Failed(m1) THEN m1 ELSE
    Let([m2 \in {nmldict_getitem(m1, "drv_in")} |-> IF Failed(m2) THEN m2 ELSE
        nmldict_getitem(m2, "lnd_modelio.nml")])])

\* BoolText writing a digit for either value
BoolText_digit(b) == IF b THEN "1" ELSE "0"

\* '1' if b else ''
BoolText(b) == IF b THEN "1" ELSE ""

to_xml(m) ==
    IF m.err # None THEN m
    ELSE IF m.self.end_date = Absent THEN Raise(m, "AttributeError")
    ELSE [m EXCEPT !.fs.xml =
            Some([ name |-> m.self.name[1],
                   path |-> m.self.path[1],
                   start_date |-> FmtCosmo(m.self.start_date[1]),
                   end_date |-> FmtCosmo(m.self.end_date[1]),
                   run_length |-> m.self.run_length,
                   COSMO_exe |-> m.self.COSMO_exe,
                   CESM_exe |-> m.self.CESM_exe,
                   wall_time |-> m.self.wall_time,
                   account |-> m.self.account,
                   gpu_mode |-> BoolText(m.self.gpu_mode),
                   module_purge |-> BoolText(m.self.module_purge),
                   dummy_day |-> BoolText(m.self.dummy_day) ])]

\* ------------------------------------------------------------------------
\* Property setters of the case and case.__init__
\* ------------------------------------------------------------------------
\* $PROJECT gives the account when none is passed.
EnvAccount == "project"

set_path(m, path) ==
    IF m.err # None THEN m
    ELSE IF path = Absent
    THEN \* os.path.join(os.environ['SCRATCH'], self.name)
         IF m.self.name = Absent THEN Raise(m, "AttributeError")
         ELSE [m EXCEPT !.self.path = Some(<<"SCRATCH", m.self.name[1]>>)]
    ELSE [m EXCEPT !.self.path = path]

set_name(m, name) ==
    IF m.err # None THEN m
    ELSE SetPar([m EXCEPT !.self.name = Some(name)], "drv_in", "case_name", name)

set_start_date(m, start_date) ==
    Let([m1 \in {nmldict_getitem(m, "INPUT_ORG")} |-> IF Failed(m1) THEN m1 ELSE
        IF start_date # Absent
        THEN Let([p \in {ParseCosmo(start_date[1])} |->
                IF ~p.ok THEN Raise(m1, "BadDate")
                ELSE SetPar([m1 EXCEPT !.self.start_date = Some(p.val)],
                            "INPUT_ORG", "ydate_ini", Some(FmtCosmo(p.val)))])
        ELSE IF Par(m1, "INPUT_ORG", "ydate_ini") # Absent
        THEN Let([p \in {ParseCosmo(Par(m1, "INPUT_ORG", "ydate_ini")[1])} |->
                IF ~p.ok THEN Raise(m1, "BadDate")
                ELSE [m1 EXCEPT !.self.start_date = Some(p.val)]])
        ELSE Raise(m1, "MissingField")])

set_end_date(m, end_date) ==
    Let([m1 \in {nmldict_getitem(m, "INPUT_ORG")} |-> IF Failed(m1) THEN m1 ELSE
        IF end_date # Absent
        THEN Let([p \in {ParseCosmo(end_date[1])} |->
                IF ~p.ok THEN Raise(m1, "BadDate")
                ELSE SetPar([m1 EXCEPT !.self.end_date = Some(p.val)],
                            "INPUT_ORG", "ydate_end", Some(FmtCosmo(p.val)))])
        ELSE IF Par(m1, "INPUT_ORG", "ydate_end") # Absent
        THEN Let([p \in {ParseCosmo(Par(m1, "INPUT_ORG", "ydate_end")[1])} |->
                IF ~p.ok THEN Raise(m1, "BadDate")
                ELSE [m1 EXCEPT !.self.end_date = Some(p.val)]])
        ELSE [m1 EXCEPT !.self.end_date = Absent]])

set_ncosx(m, n) ==
    IF m.err # None THEN m
    ELSE IF n = Absent THEN [m EXCEPT !.self.ncosx = n]
    ELSE SetPar([m EXCEPT !.self.ncosx = n], "INPUT_ORG", "nprocx", n[1])

set_ncosy(m, n) ==
    IF m.err # None THEN m
    ELSE IF n = Absent THEN [m EXCEPT !.self.ncosy = n]
    ELSE SetPar([m EXCEPT !.self.ncosy = n], "INPUT_ORG", "nprocy", n[1])

set_ncesm(m, n) ==
    IF m.err # None THEN m
    ELSE IF n = Absent THEN [m EXCEPT !.self.ncesm = n]
    ELSE SetPar([m EXCEPT !.self.ncesm = n], "drv_in", "lnd_ntasks", n[1])

\* The attributes __init__ assigns without further work
BasicInit(a) ==
    [NewSelf EXCEPT
        !.run_length = a.run_length, !.COSMO_exe = a.COSMO_exe,
        !.CESM_exe = a.CESM_exe, !.wall_time = a.wall_time,
        !.account = IF a.account = Absent THEN EnvAccount ELSE a.account[1],
        !.gpu_mode = a.gpu_mode, !.module_purge = a.module_purge,
        !.dummy_day = a.dummy_day]

\* case.__init__ writing config.xml before the directories are created
case_init_xml_early(a, d, f) ==
    Let([m0 \in {[self |-> BasicInit(a), nml |-> NoCache, disk |-> d, fs |-> f, err |-> None]} |-> IF Failed(m0) THEN m0 ELSE
    Let([m1 \in {set_path(m0, a.path)} |-> IF Failed(m1) THEN m1 ELSE
    Let([m2 \in {set_name(m1, a.name)} |-> IF Failed(m2) THEN m2 ELSE
    Let([m3 \in {set_start_date(m2, a.start_date)} |-> IF Failed(m3) THEN m3 ELSE
    Let([m4 \in {set_end_date(m3, a.end_date)} |-> IF Failed(m4) THEN m4 ELSE
    Let([m5 \in {compute_run_dates(m4)} |-> IF Failed(m5) THEN m5 ELSE
    Let([m6 \in {apply_run_dates(m5)} |-> IF Failed(m6) THEN m6 ELSE
    Let([m7 \in {check_gribout(m6)} |-> IF Failed(m7) THEN m7 ELSE
    Let([m8 \in {set_ncosx(m7, a.ncosx)} |-> IF Failed(m8) THEN m8 ELSE
    Let([m9 \in {set_ncosy(m8, a.ncosy)} |-> IF Failed(m9) THEN m9 ELSE
    Let([m10 \in {set_ncesm(m9, a.ncesm)} |-> IF Failed(m10) THEN m10 ELSE
    Let([m11 \in {write_open_nml(m10)} |-> IF Failed(m11) THEN m11 ELSE
    Let([m12 \in {build_proc_config(m11)} |-> IF Failed(m12) THEN m12 ELSE
    Let([m13 \in {build_controller(m12)} |-> IF Failed(m13) THEN m13 ELSE
    Let([m14 \in {to_xml(m13)} |-> IF Failed(m14) THEN m14 ELSE
        create_missing_dirs(m14)])])])])])])])])])])])])])])])

\* case.__init__ without the flush of the namelists
case_init_unflushed(a, d, f) ==
    Let([m0 \in {[self |-> BasicInit(a), nml |-> NoCache, disk |-> d, fs |-> f, err |-> None]} |-> IF Failed(m0) THEN m0 ELSE
    Let([m1 \in {set_path(m0, a.path)} |-> IF Failed(m1) THEN m1 ELSE
    Let([m2 \in {set_name(m1, a.name)} |-> IF Failed(m2) THEN m2 ELSE
    Let([m3 \in {set_start_date(m2, a.start_date)} |-> IF Failed(m3) THEN m3 ELSE
    Let([m4 \in {set_end_date(m3, a.end_date)} |-> IF Failed(m4) THEN m4 ELSE
    Let([m5 \in {compute_run_dates(m4)} |-> IF Failed(m5) THEN m5 ELSE
    Let([m6 \in {apply_run_dates(m5)} |-> IF Failed(m6) THEN m6 ELSE
    Let([m7 \in {check_gribout(m6)} |-> IF Failed(m7) THEN m7 ELSE
    Let([m8 \in {set_ncosx(m7, a.ncosx)} |-> IF Failed(m8) THEN m8 ELSE
    Let([m9 \in {set_ncosy(m8, a.ncosy)} |-> IF Failed(m9) THEN m9 ELSE
    Let([m10 \in {set_ncesm(m9, a.ncesm)} |-> IF Failed(m10) THEN m10 ELSE
    Let([m12 \in {build_proc_config(m10)} |-> IF Failed(m12) THEN m12 ELSE
    Let([m13 \in {build_controller(m12)} |-> IF Failed(m13) THEN m13 ELSE
    Let([m14 \in {create_missing_dirs(m13)} |-> IF Failed(m14) THEN m14 ELSE
        to_xml(m14)])])])])])])])])])])])])])])

\* case.__init__(**a) in a fresh process that sees the directory (d, f)
case_init(a, d, f) ==
    Let([m0 \in {[self |-> BasicInit(a), nml |-> NoCache, disk |-> d, fs |-> f, err |-> None]} |-> IF Failed(m0) THEN m0 ELSE
    Let([m1 \in {set_path(m0, a.path)} |-> IF Failed(m1) THEN m1 ELSE
    Let([m2 \in {set_name(m1, a.name)} |-> IF Failed(m2) THEN m2 ELSE
    Let([m3 \in {set_start_date(m2, a.start_date)} |-> IF Failed(m3) THEN m3 ELSE
    Let([m4 \in {set_end_date(m3, a.end_date)} |-> IF Failed(m4) THEN m4 ELSE
    Let([m5 \in {compute_run_dates(m4)} |-> IF Failed(m5) THEN m5 ELSE
    Let([m6 \in {apply_run_dates(m5)} |-> IF Failed(m6) THEN m6 ELSE
    Let([m7 \in {check_gribout(m6)} |-> IF Failed(m7) THEN m7 ELSE
    Let([m8 \in {set_ncosx(m7, a.ncosx)} |-> IF Failed(m8) THEN m8 ELSE
    Let([m9 \in {set_ncosy(m8, a.ncosy)} |-> IF Failed(m9) THEN m9 ELSE
    Let([m10 \in {set_ncesm(m9, a.ncesm)} |-> IF Failed(m10) THEN m10 ELSE
    Let([m11 \in {write_open_nml(m10)} |-> IF Failed(m11) THEN m11 ELSE
    Let([m12 \in {build_proc_config(m11)} |-> IF Failed(m12) THEN m12 ELSE
    Let([m13 \in {build_controller(m12)} |-> IF Failed(m13) THEN m13 ELSE
    Let([m14 \in {create_missing_dirs(m13)} |-> IF Failed(m14) THEN m14 ELSE
        to_xml(m14)])])])])])])])])])])])])])])])

\* ------------------------------------------------------------------------
\* case.set_next_run: the context it leaves and the value it returns
\* ------------------------------------------------------------------------
\* for gribout in self._get_gribouts(): gribout['lwrite_const'] = False
ClearWriteConst_first_only(m) ==
    Let([gribs \in {get_gribouts(m)} |->
        IF Len(gribs) = 0 THEN m
        ELSE SetPar(m, "INPUT_IO", "gribout",
                    Some([i \in 1..Len(gribs) |->
                            IF i = 1 THEN [gribs[i] EXCEPT !.lwrite_const = FALSE]
                            ELSE gribs[i]]))])

ClearWriteConst(m) ==
    Let([gribs \in {get_gribouts(m)} |->
        IF Len(gribs) = 0 THEN m
        ELSE SetPar(m, "INPUT_IO", "gribout",
                    Some([i \in 1..Len(gribs) |->
                            [gribs[i] EXCEPT !.lwrite_const = FALSE]]))])

\* set_next_run_effects without the flush of the namelists
set_next_run_effects_unflushed(m) ==
    Let([m1 \in {SetPar(m, "INPUT_ORG", "hstart",
                (m.self.run_end_date[1] - m.self.start_date[1]) \div SecPerHour)} |-> IF Failed(m1) THEN m1 ELSE
    Let([m2 \in {SetPar(m1, "drv_in", "start_ymd", FmtCesm(m1.self.run_end_date[1]))} |-> IF Failed(m2) THEN m2 ELSE
    Let([m3 \in {nmldict_getitem(m2, "INPUT_IO")} |-> IF Failed(m3) THEN m3 ELSE
    Let([m4 \in {SetPar(m3, "INPUT_IO", "ydirini", Par(m3, "INPUT_IO", "ydir_restart_out"))} |-> IF Failed(m4) THEN m4 ELSE
    Let([m5 \in {ClearWriteConst(m4)} |-> IF Failed(m5) THEN m5 ELSE
    Let([m6 \in {SetPar(m5, "drv_in", "start_type", "continue")} |-> IF Failed(m6) THEN m6 ELSE
    Let([m8 \in {compute_run_dates(m6)} |-> IF Failed(m8) THEN m8 ELSE
        update_controller(m8)])])])])])])])

\* set_next_run_effects leaving the restart input directory as it is
set_next_run_effects_same_input(m) ==
    Let([m1 \in {SetPar(m, "INPUT_ORG", "hstart",
                (m.self.run_end_date[1] - m.self.start_date[1]) \div SecPerHour)} |-> IF Failed(m1) THEN m1 ELSE
    Let([m2 \in {SetPar(m1, "drv_in", "start_ymd", FmtCesm(m1.self.run_end_date[1]))} |-> IF Failed(m2) THEN m2 ELSE
    Let([m3 \in {nmldict_getitem(m2, "INPUT_IO")} |-> IF Failed(m3) THEN m3 ELSE
    Let([m5 \in {ClearWriteConst(m3)} |-> IF Failed(m5) THEN m5 ELSE
    Let([m6 \in {SetPar(m5, "drv_in", "start_type", "continue")} |-> IF Failed(m6) THEN m6 ELSE
    Let([m7 \in {write_open_nml(m6)} |-> IF Failed(m7) THEN m7 ELSE
    Let([m8 \in {compute_run_dates(m7)} |-> IF Failed(m8) THEN m8 ELSE
        update_controller(m8)])])])])])])])

\* the else branch up to the return statements
set_next_run_effects(m) ==
    Let([m1 \in {SetPar(m, "INPUT_ORG", "hstart",
                (m.self.run_end_date[1] - m.self.start_date[1]) \div SecPerHour)} |-> IF Failed(m1) THEN m1 ELSE
    Let([m2 \in {SetPar(m1, "drv_in", "start_ymd", FmtCesm(m1.self.run_end_date[1]))} |-> IF Failed(m2) THEN m2 ELSE
    Let([m3 \in {nmldict_getitem(m2, "INPUT_IO")} |-> IF Failed(m3) THEN m3 ELSE
    Let([m4 \in {SetPar(m3, "INPUT_IO", "ydirini", Par(m3, "INPUT_IO", "ydir_restart_out"))} |-> IF Failed(m4) THEN m4 ELSE
    Let([m5 \in {ClearWriteConst(m4)} |-> IF Failed(m5) THEN m5 ELSE
    Let([m6 \in {SetPar(m5, "drv_in", "start_type", "continue")} |-> IF Failed(m6) THEN m6 ELSE
    Let([m7 \in {write_open_nml(m6)} |-> IF Failed(m7) THEN m7 ELSE
    Let([m8 \in {compute_run_dates(m7)} |-> IF Failed(m8) THEN m8 ELSE
        update_controller(m8)])])])])])])])])

\* set_next_run answering True whenever it has computed a next chunk
set_next_run_eager(m) ==
    IF m.self.run_start_date[1] >= m.self.end_date[1]
    THEN [m |-> m, ret |-> "False"]
    ELSE Let([m9 \in {set_next_run_effects(m)} |->
            IF m9.err # None THEN [m |-> m9, ret |-> None]
            ELSE [m |-> m9, ret |-> "True"]])

set_next_run(m) ==
    IF m.self.run_start_date[1] >= m.self.end_date[1]
    THEN [m |-> m, ret |-> "False"]
    ELSE Let([m9 \in {set_next_run_effects(m)} |->
            IF m9.err # None THEN [m |-> m9, ret |-> None]
            ELSE IF m9.self.run_start_date[1] = m9.self.end_date[1] /\ ~m9.self.dummy_day
            THEN [m |-> m9, ret |-> "False"]
            ELSE [m |-> m9, ret |-> "True"]])

\* ------------------------------------------------------------------------
\* case_from_xml: the keyword arguments read back from config.xml
\* ------------------------------------------------------------------------
\* Element text: an empty text is read back as None.
XmlText(t) == IF t = "" THEN Absent ELSE Some(t)

\* bool(text) of an element with type="bool"
XmlBool(t) == XmlText(t) # Absent

xml_args(x) ==
    [ name |-> x.name, path |-> Some(x.path),
      start_date |-> Some(x.start_date), end_date |-> Some(x.end_date),
      run_length |-> IF x.run_length = Absent \/ x.run_length = Some(<< >>)
                     THEN Absent ELSE x.run_length,
      COSMO_exe |-> x.COSMO_exe, CESM_exe |-> x.CESM_exe,
      wall_time |-> x.wall_time, account |-> XmlText(x.account),
      ncosx |-> Absent, ncosy |-> Absent, ncesm |-> Absent,
      gpu_mode |-> XmlBool(x.gpu_mode), module_purge |-> XmlBool(x.module_purge),
      dummy_day |-> XmlBool(x.dummy_day) ]

\* ------------------------------------------------------------------------
\* Initial state: create_new_case has copied the namelist templates into the
\* case directory and is about to construct the case.
\* ------------------------------------------------------------------------
GriboutTmpl ==
    << [hcomb |-> <<0, 0, 1>>, lwrite_const |-> TRUE, ydir |-> "out01"],
       [hcomb |-> <<0, 0, 48>>, lwrite_const |-> TRUE, ydir |-> "out02"] >>

DiskTmpl(ini, hstart, ymd, stop) ==
    [f \in Files |->
       CASE f = "INPUT_ORG" ->
              Some([ ydate_ini |-> Some(ini), ydate_end |-> Absent, hstart |-> hstart,
                     nstop |-> stop[1], dt |-> stop[2], nprocx |-> 4, nprocy |-> 3 ])
         [] f = "drv_in" ->
              Some([ case_name |-> "", start_ymd |-> ymd, stop_n |-> stop[3],
                     restart_n |-> stop[3], start_type |-> "startup",
                     lnd_ntasks |-> 12 ])
         [] f = "INPUT_IO" ->
              Some([ gribout |-> Some(GriboutTmpl), ngribout |-> Len(GriboutTmpl),
                     nhour_restart |-> <<0, 0, 0>>, ydirini |-> "COSMO_input",
                     ydir_restart_in |-> "COSMO_output/restart",
                     ydir_restart_out |-> "COSMO_output/restart" ])
         [] OTHER -> Some([ diri |-> "CESM_input", diro |-> "CESM_output" ])]

\* A case directory into which lnd_modelio.nml has not been copied.
IncompleteTmpl ==
    [DiskTmpl(2020010100, 0, 20200101, <<47, 3600, 86400>>) EXCEPT !["lnd_modelio.nml"] = Absent]

NoFiles == [namcouple |-> Absent, proc_config |-> Absent, controller |-> Absent,
            xml |-> Absent]

CmdLineArgs(path, start, end, rl, dummy, mach) ==
    [ name |-> "COSMO_CLM2", path |-> path, start_date |-> start, end_date |-> end,
      run_length |-> rl, COSMO_exe |-> "cosmo", CESM_exe |-> "cesm.exe",
      wall_time |-> "24:00:00", account |-> Absent,
      ncosx |-> mach[1], ncosy |-> mach[2], ncesm |-> mach[3],
      gpu_mode |-> mach[4], module_purge |-> mach[5], dummy_day |-> dummy ]

Init ==
    /\ pc = "create"
    /\ \E path \in PathArgs, start \in StartDateArgs, end \in EndDateArgs,
          rl \in RunLengthArgs, dummy \in BOOLEAN, mach \in MachineArgs :
          args = CmdLineArgs(path, start, end, rl, dummy, mach)
    /\ self = NewSelf
    /\ nml = NoCache
    /\ \/ \E ini \in YdateIniTmpls, hstart \in HstartTmpls, ymd \in StartYmdTmpls,
             stop \in StopTmpls :
             disk = DiskTmpl(ini, hstart, ymd, stop)
       \/ disk = IncompleteTmpl
    /\ fs = NoFiles
    /\ err = None
    /\ result = None
    /\ nadv = 0

\* ------------------------------------------------------------------------
\* Actions
\* ------------------------------------------------------------------------
\* The context of the running process, no exception pending.
here == [self |-> self, nml |-> nml, disk |-> disk, fs |-> fs, err |-> None]

\* case(...): by create_new_case (pc = "create") or, through case_from_xml, by
\* control_case (pc = "new").
Construct ==
    /\ pc \in {"create", "new"}
    /\ \E m \in {case_init(args, disk, fs)} :
          /\ self' = m.self
          /\ nml' = m.nml
          /\ disk' = m.disk
          /\ fs' = m.fs
          /\ err' = m.err
          /\ pc' = IF m.err # None THEN "failed"
                   ELSE IF pc = "create" THEN "created" ELSE "constructed"
    /\ UNCHANGED <<args, result, nadv>>

\* control_case: cc2case.run(); the launched executables end with or without
\* an error.
Run ==
    /\ pc = "constructed"
    /\ \E ok \in BOOLEAN :
          /\ pc' = IF ok THEN "ran" ELSE "failed"
          /\ err' = IF ok THEN None ELSE "ExternalCommandFailure"
    /\ UNCHANGED <<args, self, nml, disk, fs, result, nadv>>

\* The effect of one set_next_run() call that leaves the invocation at "at"
\* when it returns.
CallSetNextRun(at) ==
    \E r \in {set_next_run([self |-> self, nml |-> nml, disk |-> disk, fs |-> fs,
                             err |-> None])} :
       /\ self' = r.m.self
       /\ nml' = r.m.nml
       /\ disk' = r.m.disk
       /\ fs' = r.m.fs
       /\ err' = r.m.err
       /\ result' = r.ret
       /\ pc' = IF r.m.err # None THEN "failed" ELSE at
       /\ nadv' = Min(nadv + 1, MaxAdvance)
       /\ UNCHANGED args

\* control_case: if cc2case.set_next_run(): ...
SetNextRun ==
    /\ pc = "ran"
    /\ CallSetNextRun("decided")

\* set_next_run() called on a constructed case by a driver of its own, any
\* number of times
Advance ==
    /\ pc \in {"created", "constructed", "advanced"}
    /\ CallSetNextRun("advanced")

\* Submit whatever set_next_run() has answered
Submit_unasked ==
    /\ pc \in {"created", "decided"}
    /\ fs.xml # Absent
    /\ pc' = "new"
    /\ args' = xml_args(fs.xml[1])
    /\ self' = NewSelf
    /\ nml' = NoCache
    /\ result' = None
    /\ UNCHANGED <<disk, fs, err, nadv>>

\* submit(): sbatch starts control_case in a new process, which reads
\* config.xml.  create_new_case submits the case it has built, control_case
\* the next chunk when set_next_run() returned True.
Submit ==
    /\ \/ pc = "created"
       \/ pc = "decided" /\ result = "True"
    /\ fs.xml # Absent
    /\ pc' = "new"
    /\ args' = xml_args(fs.xml[1])
    /\ self' = NewSelf
    /\ nml' = NoCache
    /\ result' = None
    /\ UNCHANGED <<disk, fs, err, nadv>>

Next == Construct \/ Run \/ SetNextRun \/ Advance \/ Submit

Spec == Init /\ [][Next]_vars

\* control_case and the batch system on their own, without the direct
\* driver: sbatch runs every submitted job and each invocation runs to its
\* end, so every step of the chain is taken once it is enabled.
ChainNext == Construct \/ Run \/ SetNextRun \/ Submit

ChainSpec ==
    Init /\ [][ChainNext]_vars
         /\ WF_vars(Construct) /\ WF_vars(Run) /\ WF_vars(SetNextRun) /\ WF_vars(Submit)

\* ------------------------------------------------------------------------
\* The namelist dictionary on its own: the operations the case performs on
\* self.nml, in any order, in one process over a case directory in which one
\* of the files may be missing.  pc and args name the last operation and
\* result holds what a get returned.
\* ------------------------------------------------------------------------
StoreTmpl == DiskTmpl(2020010100, 0, 20200101, <<47, 3600, 86400>>)

\* The case directories: complete, or without one of the files.
StoreDisks == {StoreTmpl} \cup {[StoreTmpl EXCEPT ![f] = Absent] : f \in Files}

\* The assignments self.nml[file][param] = value performed
StorePars ==
    { <<"INPUT_ORG", "hstart", 24>>, <<"INPUT_IO", "ngribout", 1>>,
      <<"drv_in", "start_type", "continue">>, <<"drv_in", "start_type", "startup">> }

StoreInit ==
    /\ pc = "store"
    /\ args = << >>
    /\ self = NewSelf
    /\ nml = NoCache
    /\ disk \in StoreDisks
    /\ fs = NoFiles
    /\ err = None
    /\ result = Absent
    /\ nadv = 0

\* The context an operation leaves becomes the state.
StoreDone(m, op, a, ret) ==
    /\ nml' = m.nml
    /\ disk' = m.disk
    /\ err' = m.err
    /\ result' = IF m.err # None THEN Absent ELSE ret
    /\ pc' = op
    /\ args' = a
    /\ UNCHANGED <<self, fs, nadv>>

\* self.nml[f]
StoreGet(f) ==
    \E m \in {nmldict_getitem(here, f)} : StoreDone(m, "get", <<f>>, m.nml[f])

\* self.nml[file][param] = value
StoreSet(p) ==
    \E m \in {SetPar(here, p[1], p[2], p[3])} : StoreDone(m, "set", p, Absent)

\* self.nml.write(f)
StoreWrite(f) ==
    \E m \in {nmldict_write(here, f)} : StoreDone(m, "write", <<f>>, Absent)

\* self.nml.write_all()
StoreWriteAll ==
    \E m \in {nmldict_write_all(here)} : StoreDone(m, "write_all", << >>, Absent)

StoreNext ==
    \/ \E f \in Files : StoreGet(f)
    \/ \E p \in StorePars : StoreSet(p)
    \/ \E f \in Files : StoreWrite(f)
    \/ StoreWriteAll

StoreSpec == StoreInit /\ [][StoreNext]_vars

\* ------------------------------------------------------------------------
\* add_time_from_str on its own: one call with a date and a duration
\* expression, as _compute_run_dates makes it with the chunk start and the
\* run length.  result holds the outcome [err, val].
\* ------------------------------------------------------------------------
\* The characters of the expressions: digits, signs, the three unit letters
\* and a letter that is no unit.
DurAlphabet == {"1", "4", "+", "-", "y", "m", "d", "x"}

\* Every expression of at most MaxLen characters
DurStrs == UNION {[1..n -> DurAlphabet] : n \in 0..MaxLen}

\* Start of a year, middle of a year, end of a long month, last month, in
\* the second year of the calendar.
DurDates ==
    { MkDate(MinYear + 1, 1, 1, 0), MkDate(MinYear + 1, 6, 15, 12),
      MkDate(MinYear + 1, 1, 31, 0), MkDate(MinYear + 1, 12, 1, 6) }

DurInit ==
    /\ pc = "parse"
    /\ args \in [date1 : DurDates, dt_str : DurStrs]
    /\ self = NewSelf
    /\ nml = NoCache
    /\ disk = NoCache
    /\ fs = NoFiles
    /\ err = None
    /\ result = Absent
    /\ nadv = 0

\* add_time_from_str(date1, dt_str)
AddTime ==
    /\ pc = "parse"
    /\ \E r \in {add_time_from_str(args.date1, args.dt_str)} :
          /\ result' = r
          /\ err' = r.err
    /\ pc' = "parsed"
    /\ UNCHANGED <<args, self, nml, disk, fs, nadv>>

DurNext == AddTime

DurSpec == DurInit /\ [][DurNext]_vars

\* ------------------------------------------------------------------------
\* Properties
\* ------------------------------------------------------------------------
\* The last construction or set_next_run() ended without an exception.
Reconciled == pc \in {"created", "constructed", "ran", "decided", "advanced"}

\* This step is a construction / a set_next_run() call.
ConstructStep == pc \in {"create", "new"} /\ pc' # pc
AdvanceStep == pc \in {"created", "constructed", "advanced", "ran"}
                 /\ pc' \in {"advanced", "decided", "failed"}
                 /\ ~(pc = "constructed" /\ err' = "ExternalCommandFailure")

run_start == self.run_start_date[1]
run_end == self.run_end_date[1]
case_end == self.end_date[1]

\* The start dates the two namelists of directory d encode.
date_cosmo_of(d) ==
    ParseCosmo(d["INPUT_ORG"][1].ydate_ini[1]).val + d["INPUT_ORG"][1].hstart * SecPerHour
date_cesm_of(d) == ParseCesm(d["drv_in"][1].start_ymd).val

\* C4 as stated: after a successful construction or set_next_run(), the chunk
\* end date is never later than the case end date.
C4_EndNeverExceeds == Reconciled => run_end <= case_end

\* C4, amended: the chunk end date is not later than the case end date while
\* the chunk starts before the case end date; a chunk that starts at the case
\* end date is the one-day chunk [case_end, case_end + 1 day).
C4_EndBounded ==
    Reconciled =>
        /\ run_start <= case_end
        /\ run_start < case_end => run_end <= case_end
        /\ run_start = case_end => run_end = case_end + SecPerDay

\* A chunk cut at the case end date before a whole run_length has passed.
C4_Witness ==
    /\ Reconciled
    /\ self.run_length = Some(<<"1", "d">>)
    /\ run_start < case_end
    /\ run_end = case_end
    /\ self.runtime[1] < SecPerDay

\* C5: after a successful construction or set_next_run(), the chunk start
\* date is the date INPUT_ORG encodes (ydate_ini plus hstart hours) and the
\* date drv_in encodes (start_ymd), in the files and in the cached namelists.
C5_StartAgrees ==
    Reconciled =>
        /\ run_start = date_cosmo_of(disk)
        /\ run_start = date_cesm_of(disk)
        /\ run_start = date_cosmo_of(nml)
        /\ run_start = date_cesm_of(nml)

\* A second chunk whose start date both namelists encode.
C5_Witness ==
    /\ Reconciled
    /\ result = "True"
    /\ self.run_length = Some(<<"1", "d">>)
    /\ disk["INPUT_ORG"][1].hstart = 24
    /\ disk["drv_in"][1].start_ymd = 20200102
    /\ run_start = date_cosmo_of(disk)

\* C7: with a case end date set, reconciliation fails with InvalidRange when
\* the chunk starts after the case end date, gives the one-day chunk when it
\* starts at the case end date, and otherwise ends the chunk at the case end
\* date or, a run_length being set, at the earlier of run_start + run_length
\* and the case end date; the duration is chunk end - chunk start.
C7_BoundedReconciliation ==
    (args.end_date # Absent /\ self.run_start_date # Absent /\ self.end_date # Absent) =>
        /\ run_start > case_end => err = "InvalidRange"
        /\ (run_start = case_end /\ Reconciled) =>
              /\ run_end = case_end + SecPerDay
              /\ self.runtime = Some(SecPerDay)
        /\ (run_start < case_end /\ self.run_length = Absent /\ Reconciled) =>
              /\ run_end = case_end
              /\ self.runtime = Some(case_end - run_start)
        /\ (run_start < case_end /\ self.run_length # Absent) =>
              LET a == add_time_from_str(run_start, self.run_length[1])
              IN IF a.err # None THEN err = a.err
                 ELSE Reconciled =>
                        /\ run_end = Min(a.val, case_end)
                        /\ self.runtime = Some(run_end - run_start)

\* A construction that InvalidRange ended.
C7_Witness ==
    /\ pc = "failed"
    /\ err = "InvalidRange"
    /\ args.end_date # Absent
    /\ run_start > case_end

\* C9: with no case end date and no run_length, the construction derives the
\* duration from INPUT_ORG ((nstop + 1) * dt - hstart * 3600) and from drv_in
\* (stop_n), fails with DurationMismatch iff the two differ, and otherwise
\* ends the chunk and the case at run_start + the agreed duration.
C9_OpenReconciliation ==
    [][ ( /\ ConstructStep
          /\ args.end_date = Absent
          /\ args.run_length = Absent
          /\ self'.run_start_date # Absent )
        => LET runtime_cosmo == (disk["INPUT_ORG"][1].nstop + 1) * disk["INPUT_ORG"][1].dt
                                  - disk["INPUT_ORG"][1].hstart * SecPerHour
               runtime_cesm == disk["drv_in"][1].stop_n
           IN IF runtime_cosmo # runtime_cesm
              THEN err' = "DurationMismatch" /\ pc' = "failed"
              ELSE /\ err' = None
                   /\ self'.runtime = Some(runtime_cesm)
                   /\ self'.run_end_date = Some(self'.run_start_date[1] + runtime_cesm)
                   /\ self'.end_date = self'.run_end_date ]_vars

\* A case built with no end date and no run_length: its 12-hour chunk.
C9_Witness ==
    /\ pc = "created"
    /\ args.end_date = Absent
    /\ args.run_length = Absent
    /\ self.runtime = Some(12 * SecPerHour)
    /\ case_end = run_start + 12 * SecPerHour

\* C10: whenever the start date INPUT_ORG encodes and the start date drv_in
\* encodes differ, be it by one hour, the construction or set_next_run() that
\* reads them fails with DateMismatch and leaves the chunk start date as it
\* was.
C10_DateMismatch ==
    [][ ( /\ ConstructStep \/ AdvanceStep
          /\ nml'["INPUT_ORG"] # Absent
          /\ nml'["drv_in"] # Absent
          /\ date_cosmo_of(nml') # date_cesm_of(nml') )
        => /\ err' = "DateMismatch"
           /\ pc' = "failed"
           /\ self'.run_start_date = self.run_start_date ]_vars

\* A construction that failed on start dates one hour apart.
C10_Witness ==
    /\ pc = "failed"
    /\ err = "DateMismatch"
    /\ nml["INPUT_ORG"] # Absent /\ nml["drv_in"] # Absent
    /\ date_cosmo_of(nml) = date_cesm_of(nml) + SecPerHour
    /\ self.run_start_date = Absent

\* A run_length of whole days, 'Nd', and its N
InDays(rl) ==
    /\ rl # Absent
    /\ Len(rl[1]) >= 2
    /\ rl[1][Len(rl[1])] = "d"
    /\ AllDigits(SubSeq(rl[1], 1, Len(rl[1]) - 1))
DaysOf(rl) == DecVal(SubSeq(rl[1], 1, Len(rl[1]) - 1))

\* The case of the example: 2020-01-01-00 to 2020-01-03-00 in chunks of 1d
Example ==
    /\ self.start_date = Some(MkDate(2020, 1, 1, 0))
    /\ self.end_date = Some(MkDate(2020, 1, 3, 0))
    /\ self.run_length = Some(<<"1", "d">>)

\* The chunk of the next state is [a, b), a and b written as YYYYMMDDHH
NextChunk(a, b) ==
    /\ FmtCosmo(self'.run_start_date[1]) = a
    /\ FmtCosmo(self'.run_end_date[1]) = b

\* What C1 says of a step of a case with an end date, a run_length in days
\* and no dummy day; the first chunk is held to it when first_too.
C1_Step(first_too) ==
    (args.end_date # Absent /\ ~args.dummy_day /\ InDays(args.run_length))
    => /\ ( /\ ConstructStep
            /\ err' = None
            /\ first_too \/ self'.run_start_date[1] < self'.end_date[1] ) =>
             self'.run_end_date[1] =
                Min(self'.run_start_date[1] + DaysOf(args.run_length) * SecPerDay,
                    self'.end_date[1])
       /\ (AdvanceStep /\ run_end < case_end) => result' = "True"
       /\ (AdvanceStep /\ result' = "True") =>
             /\ self'.run_start_date[1] = run_end
             /\ self'.run_end_date[1] =
                   Min(run_end + DaysOf(args.run_length) * SecPerDay, case_end)
       /\ (ConstructStep /\ err' = None /\ Example'
             /\ FmtCosmo(self'.run_start_date[1]) = 2020010100) =>
             NextChunk(2020010100, 2020010200)
       /\ (AdvanceStep /\ Example /\ FmtCosmo(run_start) = 2020010100) =>
             result' = "True" /\ NextChunk(2020010200, 2020010300)
       /\ (AdvanceStep /\ Example /\ FmtCosmo(run_start) = 2020010200) =>
             result' = "False"
       /\ (AdvanceStep /\ Example /\ FmtCosmo(run_start) = 2020010300) =>
             result' = "False"

\* C1 as stated: for a case with an end date, a run_length in days and no
\* dummy day, the construction and every set_next_run() that returns True
\* give the chunk that starts where the last one ended and lasts one
\* run_length, cut at the case end date; in the example the chunks are
\* [01-01,01-02) and [01-02,01-03) and the third set_next_run() returns False.
C1_ChunksAsStated == [][C1_Step(TRUE)]_vars

\* C1, amended: the same for a case whose first chunk starts before the case
\* end date (a case that starts at its end date gets the one-day chunk
\* [case_end, case_end + 1 day) whatever the run_length); in the example the
\* chunks are [01-01,01-02) and [01-02,01-03) and the set_next_run() calls
\* after the second chunk return False.
C1_Chunks == [][C1_Step(FALSE)]_vars

\* The example after its third set_next_run() call, which returned False.
C1_Witness ==
    /\ pc = "advanced"
    /\ Example
    /\ ~self.dummy_day
    /\ nadv = 3
    /\ result = "False"
    /\ FmtCosmo(run_start) = 2020010300

\* C2 as stated: with dummy_day enabled, the set_next_run() after the chunk
\* that ends at the case end date returns True and gives the one-day chunk
\* [case_end, case_end + 1 day), in the example [01-03,01-04), and the
\* set_next_run() after that chunk returns False.
C2_DummyChunk ==
    [][ (args.end_date # Absent /\ args.dummy_day /\ AdvanceStep) =>
          /\ (run_start < case_end /\ run_end = case_end) =>
                /\ result' = "True"
                /\ self'.run_start_date[1] = case_end
                /\ self'.run_end_date[1] = case_end + SecPerDay
          /\ run_start = case_end => result' = "False"
          /\ (Example /\ FmtCosmo(run_start) = 2020010200) =>
                result' = "True" /\ NextChunk(2020010300, 2020010400) ]_vars

\* C3 as stated: the chain of a case with an end date comes to a
\* set_next_run() that returns False (or to a failure that ends it).
ChainOver == pc = "failed" \/ (pc = "decided" /\ result = "False")
C3_ChainTerminates == (args.end_date # Absent) => <>ChainOver

\* C6 as stated: set_next_run() returns True when the current chunk ends
\* before the case end date, or ends at it with dummy_day enabled and is
\* not the dummy chunk itself, and returns False in every other case.
C6_ReturnValue ==
    [][ AdvanceStep =>
          result' = IF \/ run_end < case_end
                       \/ run_end = case_end /\ self.dummy_day /\ run_start < case_end
                    THEN "True" ELSE "False" ]_vars

\* C8 as stated: a case built with no end date and with a run_length that
\* add_time_from_str accepts is constructed, its chunk and its case end at
\* run_start + run_length, its duration being chunk end - chunk start.
C8_OpenWithRunLength ==
    ( /\ pc \in {"created", "failed"}
      /\ nadv = 0
      /\ args.end_date = Absent
      /\ args.run_length # Absent
      /\ self.run_start_date # Absent
      /\ add_time_from_str(run_start, args.run_length[1]).err = None )
    => /\ pc = "created"
       /\ self.run_end_date = Some(add_time_from_str(run_start, args.run_length[1]).val)
       /\ self.runtime = Some(run_end - run_start)
       /\ self.end_date = self.run_end_date


\* ------------------------------------------------------------------------
\* Output streams (_check_gribout)
\* ------------------------------------------------------------------------
\* The gribout blocks of an INPUT_IO namelist, [] when it has none.
blocks_of(io) == IF io.gribout = Absent THEN << >> ELSE io.gribout[1]

\* The positions of the blocks a chunk of the given hours is long enough for.
long_enough(blocks, hours) == {i \in 1..Len(blocks) : hours >= blocks[i].hcomb[3]}

\* The blocks at the positions idx, in their order.
RECURSIVE pick(_, _, _)
pick(blocks, idx, i) ==
    IF i > Len(blocks) THEN << >>
    ELSE IF i \in idx THEN <<blocks[i]>> \o pick(blocks, idx, i + 1)
    ELSE pick(blocks, idx, i + 1)

\* What identifies a block: its directory and its threshold.
stream(g) == <<g.ydir, g.hcomb[3]>>

\* C11: a construction retains a gribout block exactly when the chunk's
\* duration in whole hours is at least the block's threshold hcomb[2], in the
\* order of the input; when a block is retained the retained list is stored
\* and ngribout is its length; when none is retained and the input had
\* blocks, the gribout parameter is absent.  The block with threshold 48 is
\* present after a 72-hour chunk and absent after a 24-hour chunk.
C11_GriboutFilter ==
    [][ConstructStep /\ err' = None =>
        LET hours == self'.runtime[1] \div SecPerHour
            blocks_in == blocks_of(disk["INPUT_IO"][1])
            kept == pick(blocks_in, long_enough(blocks_in, hours), 1)
            io == nml'["INPUT_IO"][1]
            blocks_out == blocks_of(io)
        IN  /\ Len(kept) > 0 =>
                  /\ io.gribout # Absent
                  /\ [i \in 1..Len(blocks_out) |-> stream(blocks_out[i])]
                        = [i \in 1..Len(kept) |-> stream(kept[i])]
                  /\ io.ngribout = Len(kept)
            /\ Len(kept) = 0 /\ Len(blocks_in) > 0 => io.gribout = Absent
            /\ (\E i \in 1..Len(blocks_in) : blocks_in[i].hcomb[3] = 48) =>
                  /\ hours = 72 => \E j \in 1..Len(blocks_out) : blocks_out[j].hcomb[3] = 48
                  /\ hours = 24 => \A j \in 1..Len(blocks_out) : blocks_out[j].hcomb[3] # 48
    ]_vars

\* A construction with a 24-hour chunk has kept the first of the two blocks
\* of the template and dropped the one with threshold 48.
C11_Witness ==
    /\ pc = "created"
    /\ self.runtime = Some(24 * SecPerHour)
    /\ nml["INPUT_IO"][1].ngribout = 1
    /\ Len(blocks_of(nml["INPUT_IO"][1])) = 1
    /\ blocks_of(nml["INPUT_IO"][1])[1].ydir = "out01"

\* C12: _check_gribout is idempotent for a given chunk duration: applied
\* again to the case a construction has left, it changes nothing, neither the
\* retained blocks nor any other parameter, also when the first application
\* removed every block.
C12_GriboutIdempotent ==
    pc \in {"created", "constructed"} => check_gribout(here) = here

\* A construction has removed every block: the chunk is shorter than the
\* smallest threshold.
C12_Witness ==
    /\ pc = "created"
    /\ self.runtime[1] \div SecPerHour < 1
    /\ nml["INPUT_IO"][1].gribout = Absent
    /\ check_gribout(here) = here

\* ------------------------------------------------------------------------
\* Processor layout (_build_proc_config)
\* ------------------------------------------------------------------------
\* The value a construction uses for a layout parameter: the argument when
\* one is given, the value of the file otherwise.
layout_value(arg, file, param) == IF arg # Absent THEN arg[1] ELSE disk[file][1][param]

\* C13: a construction computes n_atm = nprocx * nprocy, n_cpl = lnd_ntasks,
\* total = n_atm + n_cpl and node_count = floor(total / 12), and writes
\* exactly two ranges to proc_config, [0, n_atm - 1] for the atmosphere
\* executable and [n_atm, total - 1] for the coupler executable, which cover
\* 0 .. total - 1 without gap or overlap.  With 4, 3 and 12: total 24,
\* node_count 2, ranges 0-11 and 12-23.
C13_ProcConfig ==
    [][ConstructStep /\ err' = None =>
        LET nprocx == layout_value(args.ncosx, "INPUT_ORG", "nprocx")
            nprocy == layout_value(args.ncosy, "INPUT_ORG", "nprocy")
            n_atm == nprocx * nprocy
            n_cpl == layout_value(args.ncesm, "drv_in", "lnd_ntasks")
            total == n_atm + n_cpl
            ranges == fs'.proc_config[1]
        IN  /\ self'.n_nodes = Some(total \div n_tasks_per_node)
            /\ Len(ranges) = 2
            /\ ranges[1] = [first |-> 0, last |-> n_atm - 1, exe |-> args.COSMO_exe]
            /\ ranges[2] = [first |-> n_atm, last |-> total - 1, exe |-> args.CESM_exe]
            /\ \A t \in 0..(total - 1) :
                  Cardinality({i \in 1..2 : ranges[i].first <= t /\ t <= ranges[i].last}) = 1
            /\ nprocx = 4 /\ nprocy = 3 /\ n_cpl = 12 =>
                  /\ total = 24 /\ self'.n_nodes = Some(2)
                  /\ <<ranges[1].first, ranges[1].last>> = <<0, 11>>
                  /\ <<ranges[2].first, ranges[2].last>> = <<12, 23>>
    ]_vars

\* A construction with 2 x 5 atmosphere tasks and 7 coupler tasks: 17 tasks
\* on one whole node.
C13_Witness ==
    /\ pc = "created"
    /\ self.n_nodes = Some(1)
    /\ fs.proc_config # Absent
    /\ fs.proc_config[1][1].last = 9
    /\ fs.proc_config[1][2].first = 10
    /\ fs.proc_config[1][2].last = 16

\* ------------------------------------------------------------------------
\* The namelist dictionary (nmldict)
\* ------------------------------------------------------------------------
\* This step is the operation op with the arguments a.
StoreStep(op, a) == pc' = op /\ args' = a

\* C14: a get reads the file only when the name is not cached yet and then
\* caches what it read; every later get returns the cached namelist as it is
\* and reads nothing, so an assignment made through the dictionary is what
\* every later get returns, whatever the file holds.
C14_LoadedOnce ==
    [][/\ \A f \in Files : StoreStep("get", <<f>>) =>
             /\ nml[f] # Absent => nml' = nml /\ err' = None /\ result' = nml[f]
             /\ nml[f] = Absent /\ disk[f] # Absent =>
                   nml' = [nml EXCEPT ![f] = disk[f]] /\ err' = None /\ result' = disk[f]
       /\ \A p \in StorePars : StoreStep("set", p) /\ err' = None =>
             /\ nml'[p[1]][1][p[2]] = p[3]
             /\ \A g \in Files \ {p[1]} : nml'[g] = nml[g]
             /\ nml[p[1]] # Absent =>
                   \A q \in DOMAIN nml[p[1]][1] \ {p[2]} : nml'[p[1]][1][q] = nml[p[1]][1][q]
    ]_vars

\* A get has returned the cached namelist, which an assignment has made
\* different from the file.
C14_Witness ==
    /\ pc = "get"
    /\ err = None
    /\ result = nml[args[1]]
    /\ nml[args[1]] # disk[args[1]]

\* C15: write_all() writes every cached file and leaves the others as they
\* are; write(name) writes the named file and leaves every other file as it
\* is.
C15_FlushFrame ==
    [][/\ StoreStep("write_all", << >>) =>
             /\ err' = None
             /\ \A f \in Files :
                   disk'[f] = IF nml[f] # Absent THEN nml[f] ELSE disk[f]
       /\ \A f \in Files : StoreStep("write", <<f>>) /\ err' = None =>
             /\ disk'[f] = IF nml[f] # Absent THEN nml[f] ELSE disk[f]
             /\ \A g \in Files \ {f} : disk'[g] = disk[g]
    ]_vars

\* write(name) has written a changed namelist while another cached one,
\* changed as well, is still as it was in its file.
C15_Witness ==
    /\ pc = "write"
    /\ err = None
    /\ disk[args[1]] = nml[args[1]]
    /\ disk[args[1]] # StoreTmpl[args[1]]
    /\ \E g \in Files \ {args[1]} :
          nml[g] # Absent /\ nml[g] # disk[g] /\ disk[g] = StoreTmpl[g]

\* C16: a get or an assignment leaves every file as it is: what is changed
\* in the cache reaches the files through write and write_all only.
C16_NoImplicitFlush ==
    [][pc' \in {"get", "set"} => disk' = disk]_vars

\* An assignment has changed a cached namelist whose file is still the
\* template.
C16_Witness ==
    /\ pc = "set"
    /\ err = None
    /\ nml[args[1]] # Absent
    /\ nml[args[1]][1][args[2]] = args[3]
    /\ nml[args[1]] # disk[args[1]]
    /\ disk[args[1]] = StoreTmpl[args[1]]

\* C17: a get of a name that is not cached and whose file does not exist
\* fails with ConfigNotFound and leaves the cache as it was: no entry for the
\* name, the cached namelists untouched.
C17_ConfigNotFound ==
    [][\A f \in Files :
          StoreStep("get", <<f>>) /\ nml[f] = Absent /\ disk[f] = Absent =>
              err' = "ConfigNotFound" /\ nml' = nml /\ disk' = disk
    ]_vars

\* A get has failed on the missing file while another namelist is cached and
\* changed.
C17_Witness ==
    /\ pc = "get"
    /\ err = "ConfigNotFound"
    /\ disk[args[1]] = Absent
    /\ nml[args[1]] = Absent
    /\ \E g \in Files : nml[g] # Absent /\ nml[g] # disk[g]

\* ------------------------------------------------------------------------
\* Duration expressions (add_time_from_str)
\* ------------------------------------------------------------------------
\* s without its last character
Front(s) == SubSeq(s, 1, Len(s) - 1)

\* s is a signed integer followed by the letter u.
IntThen(s, u) == Len(s) > 0 /\ s[Len(s)] = u /\ PyInt(Front(s)).ok

\* The position of the 'y' that ends a signed integer at the head of s, 0 when
\* there is none.
YearMark(s) ==
    IF \E i \in 1..Len(s) : IntThen(SubSeq(s, 1, i), "y")
    THEN CHOOSE i \in 1..Len(s) : IntThen(SubSeq(s, 1, i), "y")
    ELSE 0

\* s is of the form 'N1yN2m', 'N1y' or 'N2m'.
MatchesYM(s) ==
    IF YearMark(s) = 0 THEN IntThen(s, "m")
    ELSE YearMark(s) = Len(s) \/ IntThen(SubSeq(s, YearMark(s) + 1, Len(s)), "m")

\* N1 and N2 of such an expression, 0 for the part that is not there.
YearsIn(s) == IF YearMark(s) = 0 THEN 0 ELSE PyInt(SubSeq(s, 1, YearMark(s) - 1)).val
MonthsIn(s) ==
    IF YearMark(s) = Len(s) THEN 0
    ELSE PyInt(Front(SubSeq(s, YearMark(s) + 1, Len(s)))).val

\* s is of the form 'N3d'.
MatchesD(s) == IntThen(s, "d")

\* The year and the month the expression s leads to from the date t.
TargetYear(t, s) == YearOf(t) + YearsIn(s) + ((MonthsIn(s) + MonthOf(t) - 1) \div 12)
TargetMonth(t, s) == ((MonthOf(t) + MonthsIn(s) - 1) % 12) + 1

\* The exceptions that are a ValueError
ValueErrors == {"MalformedDuration", "InvalidLiteral", "DayOutOfRange"}

\* C18: for every expression of the form 'N1yN2m', 'N1y' or 'N2m' with signed
\* integers, add_time_from_str returns the date whose year is
\* year + N1 + floor((N2 + month - 1) / 12) and whose month is
\* (month + N2 - 1) mod 12 + 1, day and hour unchanged (stated for the
\* target years the calendar of the model holds).
C18_YearMonth ==
    pc = "parsed" /\ MatchesYM(args.dt_str)
      /\ TargetYear(args.date1, args.dt_str) \in MinYear..MaxYear =>
        /\ result.err = None
        /\ result.val = MkDate(TargetYear(args.date1, args.dt_str),
                               TargetMonth(args.date1, args.dt_str),
                               DayOf(args.date1), HourOf(args.date1))

\* C19: add_time_from_str fails with a ValueError for every string that is
\* neither of the year/month form nor a signed integer followed by 'd', and
\* does not fail for a string of one of the two forms; for 'Nd' it returns
\* the date N days later.
C19_TwoGrammars ==
    pc = "parsed" =>
        IF MatchesD(args.dt_str)
        THEN /\ result.err = None
             /\ result.val = args.date1 + PyInt(Front(args.dt_str)).val * SecPerDay
        ELSE IF MatchesYM(args.dt_str)
        THEN TargetYear(args.date1, args.dt_str) \in MinYear..MaxYear => result.err = None
        ELSE result.err \in ValueErrors

\* C31: for an expression of the year/month form whose target month does not
\* have the day of the source date (31 January plus '1m'),
\* add_time_from_str returns a date: the overflow of the day is normalised,
\* no error is raised.
C31_DayOverflow ==
    pc = "parsed" /\ MatchesYM(args.dt_str)
      /\ TargetYear(args.date1, args.dt_str) \in MinYear..MaxYear
      /\ ~ValidYMDH(TargetYear(args.date1, args.dt_str),
                    TargetMonth(args.date1, args.dt_str),
                    DayOf(args.date1), HourOf(args.date1)) =>
        /\ result.err = None
        /\ YearOf(result.val) = TargetYear(args.date1, args.dt_str)
           \/ MonthOf(result.val) = TargetMonth(args.date1, args.dt_str)
           \/ MonthOf(result.val) = (TargetMonth(args.date1, args.dt_str) % 12) + 1

\* ------------------------------------------------------------------------
\* config.xml (to_xml, case_from_xml)
\* ------------------------------------------------------------------------
\* This step hands config.xml to a new process / constructs the case from it.
SubmitStep == pc # "new" /\ pc' = "new"
RebuildStep == pc = "new" /\ pc' = "constructed"

\* strptime(text, date_fmt_in) gives the date t.
ReadsAs(text, t) == text # Absent /\ ParseCosmo(text[1]) = [ok |-> TRUE, val |-> t[1]]

C21_NoPartialDescriptor ==
    [][ConstructStep =>
          /\ err' # None => fs'.xml = fs.xml
          /\ err' = None => fs'.xml # Absent
    ]_vars

\* A construction has failed in _create_missing_dirs, after the namelists, the
\* processor layout and the controller were written, and has left no config.xml.
C21_Witness ==
    /\ pc = "failed"
    /\ err = "ConfigNotFound"
    /\ fs.controller # Absent
    /\ fs.proc_config # Absent
    /\ disk["INPUT_ORG"] = nml["INPUT_ORG"]
    /\ fs.xml = Absent

\* The case control_case would construct now from config.xml and the
\* namelists of the directory.
rebuilt == case_init(xml_args(fs.xml[1]), disk, fs)

\* C22: once a case has been constructed from config.xml, constructing it
\* again from the same config.xml and namelists, without a set_next_run() in
\* between, gives the same chunk (start, end, duration) and leaves the
\* namelists, config.xml and the generated files as the first construction
\* left them.
C22_Reinvocation ==
    pc = "constructed" =>
        /\ rebuilt.err = None
        /\ rebuilt.self.run_start_date = self.run_start_date
        /\ rebuilt.self.run_end_date = self.run_end_date
        /\ rebuilt.self.runtime = self.runtime
        /\ rebuilt.disk = disk
        /\ rebuilt.fs = fs

\* A second chunk has been constructed from config.xml, and constructing it
\* again would change nothing.
C22_Witness ==
    /\ pc = "constructed"
    /\ disk["INPUT_ORG"][1].hstart > 0
    /\ disk["drv_in"][1].start_type = "continue"
    /\ rebuilt.err = None
    /\ rebuilt.self.run_start_date = self.run_start_date
    /\ rebuilt.disk = disk
    /\ rebuilt.fs = fs

\* C23: a construction that is given no path determines the path itself: it
\* does not fail on the path and the path is $SCRATCH/<name>, <name> being
\* the name passed to the construction.
C23_DefaultPath ==
    pc \in {"created", "failed"} /\ args.path = Absent =>
        self.path = Some(<<"SCRATCH", args.name>>)

\* ------------------------------------------------------------------------
\* set_next_run
\* ------------------------------------------------------------------------
\* C24: a set_next_run() that returns False has changed nothing: no namelist
\* parameter, no namelist file, not the chunk dates and not the controller.
C24_TerminalNoEffect ==
    [][AdvanceStep /\ result' = "False" =>
          /\ nml' = nml
          /\ disk' = disk
          /\ self' = self
          /\ fs' = fs
    ]_vars

\* This step is a set_next_run() call that got past its guard and raised
\* nothing.
AdvancedStep == AdvanceStep /\ run_start < case_end /\ err' = None

C26_SubmitAfterSuccess ==
    [][/\ pc' = "new" => pc = "created" \/ (pc = "decided" /\ result = "True" /\ err = None)
       /\ pc' = "decided" => pc = "ran" /\ err' = None
       /\ pc' = "ran" => pc = "constructed" /\ err' = None
       /\ pc # "failed"
    ]_vars

\* The reconciliation has failed in the set_next_run() of control_case: the
\* chain has stopped with the error and nothing was submitted.
C26_Witness ==
    /\ pc = "failed"
    /\ err = "DateMismatch"
    /\ nadv = 1
    /\ result = None
    /\ disk["drv_in"][1].start_type = "continue"

\* ------------------------------------------------------------------------
\* The apply phase (_apply_run_dates)
\* ------------------------------------------------------------------------
\* The offset of the chunk end from the case start, in hours.
stop_hour == (run_end - self.start_date[1]) \div SecPerHour

\* C27: in the case a construction leaves, nstop is
\* floor(stop_hour * 3600 / dt) - 1, stop_hour being the offset of the chunk
\* end from the case start in hours, and stop_n and restart_n are both the
\* chunk duration in seconds; the files hold the same values.
C27_ApplyPhase ==
    pc \in {"created", "constructed"} =>
        \A d \in {nml, disk} :
            /\ d["INPUT_ORG"][1].nstop
                  = ((stop_hour * 3600) \div d["INPUT_ORG"][1].dt) - 1
            /\ d["drv_in"][1].stop_n = run_end - run_start
            /\ d["drv_in"][1].restart_n = run_end - run_start
            /\ self.runtime = Some(run_end - run_start)

\* A second chunk has been constructed with a time step of 128 s, which
\* does not divide the offset of its end, so the floor matters: the step
\* count runs from the case start.
C27_Witness ==
    /\ pc = "constructed"
    /\ run_start > self.start_date[1]
    /\ run_end > run_start
    /\ disk["INPUT_ORG"][1].dt = 128
    /\ (stop_hour * 3600) % 128 # 0
    /\ disk["INPUT_ORG"][1].nstop = ((stop_hour * 3600) \div 128) - 1
    /\ disk["drv_in"][1].stop_n = run_end - run_start

\* ------------------------------------------------------------------------
\* The job script across an advance (_update_controller)
\* ------------------------------------------------------------------------
\* C28: a set_next_run() that has advanced the case leaves a job script
\* whose '--output=' and '--error=' lines both name
\* '{name}_{chunk start}-{chunk end}.out' for the chunk just computed, and
\* whose other lines are those of the script before the call.
C28_ControllerLog ==
    [][AdvancedStep =>
          /\ fs.controller # Absent
          /\ fs'.controller =
                Some([fs.controller[1] EXCEPT !.output = LogFile(self'),
                                              !.error = LogFile(self')])
          /\ LogFile(self') = [ name |-> self.name[1],
                                from |-> FmtCesm(run_end),
                                to |-> FmtCesm(self'.run_end_date[1]) ]
    ]_vars

\* The case has been advanced to its second chunk and the job script names
\* the log of that chunk, not of the first one.
C28_Witness ==
    /\ pc \in {"advanced", "decided"}
    /\ result = "True"
    /\ run_start = self.start_date[1] + SecPerDay
    /\ fs.controller # Absent
    /\ fs.controller[1].output = LogFile(self)
    /\ fs.controller[1].error = LogFile(self)
    /\ fs.controller[1].output.from = FmtCesm(self.start_date[1] + SecPerDay)
    /\ fs.controller[1].job_name = self.name[1]

\* ------------------------------------------------------------------------
\* Restart settings across an advance
\* ------------------------------------------------------------------------
\* C29: a set_next_run() that has advanced the case leaves the restart-input
\* directory ydirini of INPUT_IO equal to the restart-output directory
\* ydir_restart_out the case had, which the call leaves alone, in the cached
\* namelist and in the file.
C29_RestartInput ==
    [][AdvancedStep =>
          /\ nml'["INPUT_IO"] # Absent
          /\ nml'["INPUT_IO"][1].ydirini = disk["INPUT_IO"][1].ydir_restart_out
          /\ nml'["INPUT_IO"][1].ydir_restart_out = disk["INPUT_IO"][1].ydir_restart_out
          /\ disk'["INPUT_IO"][1].ydirini = nml'["INPUT_IO"][1].ydirini
          /\ disk'["INPUT_IO"][1].ydir_restart_out = nml'["INPUT_IO"][1].ydir_restart_out
    ]_vars

\* The case has been advanced and its INPUT_IO file names the restart-output
\* directory, no longer the initial-data directory, as the restart input.
C29_Witness ==
    /\ pc \in {"advanced", "decided"}
    /\ result = "True"
    /\ disk["INPUT_IO"][1].ydirini = "COSMO_output/restart"
    /\ disk["INPUT_IO"][1].ydir_restart_out = "COSMO_output/restart"
    /\ nml["INPUT_IO"] = disk["INPUT_IO"]

\* The namelists of d that are there say "continue" as the start type and
\* write no constant fields in any gribout block.
warm(d) ==
    /\ d["drv_in"] # Absent => d["drv_in"][1].start_type = "continue"
    /\ d["INPUT_IO"] # Absent =>
          \A i \in 1..Len(blocks_of(d["INPUT_IO"][1])) :
              ~blocks_of(d["INPUT_IO"][1])[i].lwrite_const

\* C30: a set_next_run() that has advanced the case leaves start_type =
\* 'continue' and lwrite_const cleared in every retained gribout block, in
\* the cached namelists and in the files; and no later step, construction
\* or advance, of the case sets either back.
C30_ContinueSticks ==
    [][/\ AdvancedStep =>
             /\ nml'["drv_in"] # Absent /\ nml'["INPUT_IO"] # Absent
             /\ warm(nml') /\ warm(disk')
       /\ warm(disk) => warm(disk') /\ warm(nml')
    ]_vars

\* A later chunk has been constructed from the descriptor after an advance:
\* the start type is still 'continue' and the retained block still has
\* lwrite_const cleared.
C30_Witness ==
    /\ pc = "constructed"
    /\ nadv >= 1
    /\ run_start > self.start_date[1]
    /\ nml["drv_in"] # Absent /\ nml["drv_in"][1].start_type = "continue"
    /\ nml["INPUT_IO"] # Absent /\ Len(blocks_of(nml["INPUT_IO"][1])) = 1
    /\ warm(nml) /\ warm(disk)

\* ------------------------------------------------------------------------
\* The start fields set_next_run writes
\* ------------------------------------------------------------------------
\* C32: a set_next_run() on a successfully constructed case never fails with
\* the start-date mismatch: the hstart and the start_ymd it writes encode
\* the same instant, whatever the case start date, the case end date (an
\* hour of day other than 0 included) and the run_length.
C32_StartFieldsAgree ==
    [][AdvanceStep /\ run_start < case_end =>
          /\ err' # "DateMismatch"
          /\ date_cosmo_of(disk') = date_cesm_of(disk')
    ]_vars

\* ------------------------------------------------------------------------
\* The stop fields _apply_run_dates writes, read back
\* ------------------------------------------------------------------------
\* The case as it is, reconciled again with neither an end date nor a
\* run_length given.
reread_open ==
    compute_run_end_open([here EXCEPT !.self.end_date = Absent,
                                      !.self.run_length = Absent])

\* C33: in the case a construction leaves, the duration read back from the
\* fields of INPUT_ORG, (nstop + 1) * dt - hstart * 3600, equals stop_n and
\* the chunk duration in seconds, for every step size dt and every chunk,
\* and reconciling the case again with no end date and no run_length does
\* not raise the run-length mismatch.
C33_StopFieldsAgree ==
    pc \in {"created", "constructed"} =>
        /\ \A d \in {nml, disk} :
              /\ (d["INPUT_ORG"][1].nstop + 1) * d["INPUT_ORG"][1].dt
                    - d["INPUT_ORG"][1].hstart * SecPerHour = d["drv_in"][1].stop_n
              /\ d["drv_in"][1].stop_n = run_end - run_start
        /\ reread_open.err # "DurationMismatch"

\* ------------------------------------------------------------------------
\* The block count beside the blocks
\* ------------------------------------------------------------------------
\* C34: in the case a construction leaves, _check_gribout having been
\* applied, ngribout of INPUT_IO is the number of gribout blocks INPUT_IO
\* holds, 0 when every block has been removed, in the cached namelist and
\* in the file.
C34_BlockCount ==
    pc \in {"created", "constructed"} =>
        \A d \in {nml, disk} :
            d["INPUT_IO"][1].ngribout = Len(blocks_of(d["INPUT_IO"][1]))

\* ------------------------------------------------------------------------
\* The files at the launch of the executables
\* ------------------------------------------------------------------------
\* This step is the run() of control_case.
RunStep == pc = "constructed" /\ (pc' = "ran" \/ err' = "ExternalCommandFailure")

\* The hours from the case start to the start of the current chunk, and the
\* whole hours of the chunk.
start_hour == (run_start - self.start_date[1]) \div SecPerHour
chunk_hours == (run_end - run_start) \div SecPerHour

\* C35: whenever control_case launches the executables, the files hold the
\* values of the chunk that is run: nstop counted up to the end of this
\* chunk, stop_n and restart_n its duration in seconds, every gribout block
\* the window from its start to its end, and no block with a threshold the
\* chunk is too short for; the start fields are those set_next_run wrote.
C35_FilesOfChunk ==
    [][RunStep =>
          /\ disk["INPUT_ORG"][1].nstop
                = ((stop_hour * 3600) \div disk["INPUT_ORG"][1].dt) - 1
          /\ disk["INPUT_ORG"][1].hstart = start_hour
          /\ disk["drv_in"][1].stop_n = run_end - run_start
          /\ disk["drv_in"][1].restart_n = run_end - run_start
          /\ \A i \in 1..Len(blocks_of(disk["INPUT_IO"][1])) :
                /\ blocks_of(disk["INPUT_IO"][1])[i].hcomb[1] = start_hour
                /\ blocks_of(disk["INPUT_IO"][1])[i].hcomb[2] = start_hour + chunk_hours
                /\ blocks_of(disk["INPUT_IO"][1])[i].hcomb[3] <= chunk_hours
          /\ fs.namcouple = Some(run_end - run_start)
          /\ disk' = disk
    ]_vars

\* The executables of a later chunk, shorter than the one before it, have
\* been run on files that hold the step count and the duration of that chunk,
\* not of the one before.
C35_Witness ==
    /\ pc = "ran"
    /\ run_start = self.start_date[1] + SecPerDay
    /\ run_end - run_start = 12 * SecPerHour
    /\ disk["INPUT_ORG"][1].hstart = 24
    /\ disk["INPUT_ORG"][1].nstop = ((36 * 3600) \div disk["INPUT_ORG"][1].dt) - 1
    /\ disk["drv_in"][1].stop_n = 12 * SecPerHour
    /\ Len(blocks_of(disk["INPUT_IO"][1])) = 1
    /\ blocks_of(disk["INPUT_IO"][1])[1].hcomb = <<24, 36, 1>>

====
